---- MODULE Spec2Model ----
(***************************************************************************)
(* Model of the arima crate (krfricke/arima): src/src/acf.rs,               *)
(* src/src/estimate.rs, src/src/util.rs and src/src/sim.rs.                *)
(*                                                                         *)
(* The crate is a library of functions.  A behaviour of the model is one   *)
(* call made by a client: call is the function and its arguments, ret what *)
(* it returned (Pending until then).  The functions of acf.rs, util.rs and *)
(* sim.rs and residuals are one step each.  fit and autofit run an         *)
(* iterative optimizer and take several steps: fit holds the position of   *)
(* the call (its phase), the orders, the coefficients and the number of    *)
(* iterations made.  rng is the number of samples taken from the client's  *)
(* noise generator.                                                        *)
(*                                                                         *)
(* Numbers.  A value of the generic float type T is modelled as an         *)
(* extended rational <<n, d>> in lowest terms: d > 0 is the finite value   *)
(* n/d, <<1,0>> is +inf, <<-1,0>> is -inf and <<0,0>> is NaN, with the     *)
(* IEEE-754 rules for the special values.  Rounding is not modelled (all   *)
(* finite arithmetic is exact) and neither is the sign of zero.            *)
(* A usize is a natural number; a subtraction that would go below zero is  *)
(* modelled explicitly, under both settings of the overflow checks.        *)
(***************************************************************************)
EXTENDS Integers, Sequences, FiniteSets, TLC

VARIABLES call, ret, fit, rng

vars == <<call, ret, fit, rng>>

----------------------------------------------------------------------------
(* Bounds of the model *)

MaxLen == 4        \* longest series handed to acf
MaxVal == 1        \* series values are 0..MaxVal (and NaN)
MaxLag == 5        \* largest max_lag requested from acf
MaxResLen == 3     \* longest series handed to residuals
MaxCoef == 2       \* longest phi / theta handed to residuals
MaxRho == 4        \* longest rho handed to ar_dl_rho_cov
MaxOrder == 4      \* largest order requested from ar_dl_rho_cov
MaxFitLen == 4     \* longest prefix of the example series handed to fit
MaxAr == 2         \* largest AR order requested from fit
MaxDiff == 2       \* largest differencing order of fit, autofit and diffinv
MaxMa == 1         \* largest MA order requested from fit
MaxSimN == 2       \* most values requested from arima_sim and arima_forecast

----------------------------------------------------------------------------
(* Option<usize>: None is the empty tuple, Some(k) is <<k>> *)

None == <<>>

Some(k) == <<k>>

Min(a, b) == IF a < b THEN a ELSE b

(* results of a call: Ok(v), Err(e), or a panic that unwinds the caller *)
Ok(v) == [tag |-> "Ok", val |-> v]

Err(e) == [tag |-> "Err", val |-> e]

Panic(msg) == [tag |-> "Panic", val |-> msg]

SubOverflow == "attempt to subtract with overflow"

IndexOOB == "index out of bounds"

----------------------------------------------------------------------------
(* Float arithmetic on extended rationals *)

Abs(a) == IF a < 0 THEN -a ELSE a

Sign(a) == IF a < 0 THEN -1 ELSE IF a > 0 THEN 1 ELSE 0

RECURSIVE Gcd(_, _)
Gcd(a, b) == IF b = 0 THEN a ELSE Gcd(b, a % b)

(* n/d with d # 0, in lowest terms with a positive denominator *)
Norm(n, d) ==
    LET g == Gcd(Abs(n), Abs(d))
    IN  IF d < 0 THEN <<(-n) \div g, (-d) \div g>> ELSE <<n \div g, d \div g>>

(* the product of two finite values, cancelling before multiplying *)
MulQ(a, b) ==
    LET g1 == Gcd(Abs(a[1]), b[2])
        g2 == Gcd(Abs(b[1]), a[2])
    IN  <<(a[1] \div g1) * (b[1] \div g2), (a[2] \div g2) * (b[2] \div g1)>>

F(n) == <<n, 1>>

NaN == <<0, 0>>

Inf(s) == <<s, 0>>

IsNaN(a) == a = NaN

IsInf(a) == a[2] = 0 /\ a[1] # 0

IsFinite(a) == a[2] > 0

FNeg(a) == <<-a[1], a[2]>>

FAdd(a, b) ==
    IF IsNaN(a) \/ IsNaN(b) THEN NaN
    ELSE IF IsInf(a) THEN (IF IsInf(b) /\ b[1] # a[1] THEN NaN ELSE a)
    ELSE IF IsInf(b) THEN b
    ELSE LET g == Gcd(a[2], b[2])
         IN  Norm(a[1] * (b[2] \div g) + b[1] * (a[2] \div g), (a[2] \div g) * b[2])

FSub(a, b) == FAdd(a, FNeg(b))

FMul(a, b) ==
    IF IsNaN(a) \/ IsNaN(b) THEN NaN
    ELSE IF IsInf(a) \/ IsInf(b)
         THEN (IF a[1] = 0 \/ b[1] = 0 THEN NaN ELSE Inf(Sign(a[1]) * Sign(b[1])))
    ELSE MulQ(a, b)

FDiv(a, b) ==
    IF IsNaN(a) \/ IsNaN(b) THEN NaN
    ELSE IF IsInf(a) THEN (IF IsInf(b) THEN NaN
                           ELSE Inf(a[1] * (IF b[1] < 0 THEN -1 ELSE 1)))
    ELSE IF IsInf(b) THEN F(0)
    ELSE IF b[1] = 0 THEN (IF a[1] = 0 THEN NaN ELSE Inf(Sign(a[1])))
    ELSE MulQ(a, IF b[1] < 0 THEN <<-b[2], -b[1]>> ELSE <<b[2], b[1]>>)

(* a < b on floats: false as soon as one side is NaN *)
FLt(a, b) ==
    IF IsNaN(a) \/ IsNaN(b) THEN FALSE
    ELSE IF IsInf(a) THEN a[1] < 0 /\ b # a
    ELSE IF IsInf(b) THEN b[1] > 0
    ELSE a[1] * b[2] < b[1] * a[2]

(* element i of a slice, 0-based as in the source *)
At(s, i) == s[i + 1]

----------------------------------------------------------------------------
(* Loops.  A loop of the source over lo..hi is unrolled by halving the     *)
(* range, which keeps the evaluation shallow on long vectors; the rounds   *)
(* still run in increasing order, each on the result of the one before it. *)

(* TRUE, and v is computed when the test is made: a loop asks it of the    *)
(* state after its first half before it enters the second half             *)
Computed(v) == v = v

(* f[lo] + .. + f[hi] from zero; the sum of exact values does not depend   *)
(* on how the additions are grouped                                        *)
RECURSIVE SumFn(_, _, _)
SumFn(f, lo, hi) ==
    IF lo > hi THEN F(0)
    ELSE IF lo = hi THEN f[lo]
    ELSE FAdd(SumFn(f, lo, (lo + hi) \div 2), SumFn(f, (lo + hi) \div 2 + 1, hi))

(* the vector <<f[lo], .., f[hi]>>, each entry computed once *)
RECURSIVE CollectRange(_, _, _)
CollectRange(f, lo, hi) ==
    IF lo > hi THEN <<>>
    ELSE IF lo = hi THEN <<f[lo]>>
    ELSE CollectRange(f, lo, (lo + hi) \div 2) \o CollectRange(f, (lo + hi) \div 2 + 1, hi)

Collect(f, k) == CollectRange(f, 1, k)

----------------------------------------------------------------------------
(* acf.rs: acf *)

(* variant of AcfMaxLag that forgets the clamp to n - 1 *)
AcfMaxLagUnclamped(n, max_lag) ==
    IF max_lag # None THEN max_lag[1] ELSE n - 1

(* lines 37-41: the effective max_lag of a non-empty series *)
AcfMaxLag(n, max_lag) ==
    IF max_lag # None THEN Min(max_lag[1], n - 1) ELSE n - 1

(* line 48: x.iter().fold(sum, |sum, xi| sum + xi), over the first k items *)
SumX(x, k) == SumFn(x, 1, k)

(* lines 44-49 *)
MeanX(x) == FDiv(SumX(x, Len(x)), F(Len(x)))

(* variant of AcfLagSum that normalises by n - t (the unbiased estimator) *)
AcfLagSumUnbiased(x, mean_x, t, k) ==
    SumFn([r \in 1..k |->
             LET i == r - 1
                 xi == FSub(At(x, i), mean_x)
                 xi_t == FSub(At(x, i + t), mean_x)
             IN  FDiv(FMul(xi, xi_t), F(Len(x) - t))], 1, k)

(* lines 55-59: y[t] after the first k rounds of the inner loop *)
AcfLagSum(x, mean_x, t, k) ==
    SumFn([r \in 1..k |->
             LET i == r - 1
                 xi == FSub(At(x, i), mean_x)
                 xi_t == FSub(At(x, i + t), mean_x)
             IN  FDiv(FMul(xi, xi_t), F(Len(x)))], 1, k)

(* variant of AcfNormalise that also normalises entry 0, so that every     *)
(* later entry is divided by an already-normalised y[0]                    *)
AcfNormaliseFromZero(y, t, covariance) ==
    IF ~covariance
    THEN [y EXCEPT ![t + 1] = FDiv(y[t + 1], y[1])]
    ELSE y

(* lines 61-63: the normalisation of entry t inside the loop over t *)
AcfNormalise(y, t, covariance) ==
    IF ~covariance /\ t > 0
    THEN [y EXCEPT ![t + 1] = FDiv(y[t + 1], y[1])]
    ELSE y

(* lines 54-64: round t of the outer loop; ok is FALSE when                 *)
(* len_x_usize - t underflowed, which panics or wraps into an out-of-range  *)
(* x[i]                                                                     *)
AcfRound(prev, x, mean_x, covariance, t) ==
    IF ~prev.ok \/ t > Len(x) THEN [ok |-> FALSE, y |-> <<>>]
    ELSE [ok |-> TRUE,
          y |-> AcfNormalise(
                  [prev.y EXCEPT ![t + 1] = AcfLagSum(x, mean_x, t, Len(x) - t)],
                  t, covariance)]

(* lines 54-64: the rounds t = lo..hi of the outer loop *)
RECURSIVE AcfRounds(_, _, _, _, _, _)
AcfRounds(prev, x, mean_x, covariance, lo, hi) ==
    IF lo > hi THEN prev
    ELSE IF lo = hi THEN AcfRound(prev, x, mean_x, covariance, lo)
    ELSE LET mid == (lo + hi) \div 2
             half == AcfRounds(prev, x, mean_x, covariance, lo, mid)
         IN  IF Computed(half) THEN AcfRounds(half, x, mean_x, covariance, mid + 1, hi)
             ELSE half

(* lines 52-64: the vector y after the rounds t = 0..k-1 of the outer loop *)
AcfLoop(x, mean_x, m, covariance, k) ==
    AcfRounds([ok |-> TRUE, y |-> Collect([t \in 1..m |-> F(0)], m)],
              x, mean_x, covariance, 0, k - 1)

(* lines 65-67 *)
AcfFinish(y, covariance) ==
    IF covariance THEN y ELSE [y EXCEPT ![1] = F(1)]

(* acf on an empty slice: x.len() - 1 underflows at lines 39/40.  With      *)
(* overflow checks the subtraction panics.  Without them it wraps to        *)
(* usize::MAX: None gives m = 0 and an empty y (y[0] = 1.0 is then out of   *)
(* range), Some(0) gives m = 1 and an untouched y[0], and Some(k), k >= 1,  *)
(* reaches x[0] at t = 1 through the wrapped bound 0 - 1.                   *)
AcfEmpty(max_lag, covariance, overflow_checks) ==
    IF overflow_checks THEN Panic(SubOverflow)
    ELSE IF max_lag = None
         THEN (IF covariance THEN Ok(<<>>) ELSE Panic(IndexOOB))
    ELSE IF max_lag[1] = 0
         THEN Ok(AcfFinish(<<F(0)>>, covariance))
    ELSE Panic(IndexOOB)

(* lines 32-69 *)
Acf(x, max_lag, covariance, overflow_checks) ==
    IF Len(x) = 0 THEN AcfEmpty(max_lag, covariance, overflow_checks)
    ELSE LET m == AcfMaxLag(Len(x), max_lag) + 1
             r == AcfLoop(x, MeanX(x), m, covariance, m)
         IN  IF ~r.ok THEN Panic(IF overflow_checks THEN SubOverflow ELSE IndexOOB)
             ELSE Ok(AcfFinish(r.y, covariance))

----------------------------------------------------------------------------
(* estimate.rs: residuals *)

(* lines 49-50: Option<&[T]>::unwrap_or(&[]); Some(s) is <<s>> *)
UnwrapOrEmpty(opt) == IF opt = None THEN <<>> ELSE opt[1]

(* variant of ResidualsTooMany that forgets to check theta *)
ResidualsTooManyPhiOnly(x, phi, theta) == Len(x) < Len(phi)

(* line 52: the guard of the bail *)
ResidualsTooMany(x, phi, theta) == Len(x) < Len(phi) \/ Len(x) < Len(theta)

(* variant of ResidualsBurnIn that pushes 1.0 instead of zero *)
ResidualsBurnInOnes(phi) == [j \in 1..Len(phi) |-> F(1)]

(* lines 58-61: one zero per AR coefficient *)
ResidualsBurnIn(phi) == [j \in 1..Len(phi) |-> F(0)]

(* lines 64-66: xt after the first k AR terms have been added to acc *)
RECURSIVE ResidualsArTerms(_, _, _, _, _)
ResidualsArTerms(acc, x, phi, t, k) ==
    IF k = 0 THEN acc
    ELSE LET j == k - 1
         IN  FAdd(ResidualsArTerms(acc, x, phi, t, k - 1),
                  FMul(At(phi, j), At(x, t - j - 1)))

(* lines 67-69: xt after the first k MA terms have been added to acc *)
RECURSIVE ResidualsMaTerms(_, _, _, _, _)
ResidualsMaTerms(acc, theta, residuals, t, k) ==
    IF k = 0 THEN acc
    ELSE LET j == k - 1
         IN  FAdd(ResidualsMaTerms(acc, theta, residuals, t, k - 1),
                  FMul(At(theta, j), At(residuals, t - j - 1)))

(* variant of ResidualsMaCount that applies every MA term in every round *)
ResidualsMaCountAll(theta, t) == Len(theta)

(* line 67: the number of MA terms applied in round t *)
ResidualsMaCount(theta, t) == Min(Len(theta), t)

(* line 65: the indices of x read by the AR terms of round t *)
ResidualsArReads(phi, t) == {t - j - 1 : j \in 0..(Len(phi) - 1)}

(* line 68: the indices of residuals read by the MA terms of round t *)
ResidualsMaReads(theta, t) == {t - j - 1 : j \in 0..(ResidualsMaCount(theta, t) - 1)}

(* lines 63-70: every index read in the rounds t = phi.len()..x.len() is   *)
(* in range; residuals has t entries when round t begins                   *)
ResidualsInRange(x, phi, theta) ==
    \A t \in Len(phi)..(Len(x) - 1) :
        /\ ResidualsArReads(phi, t) \subseteq 0..(Len(x) - 1)
        /\ ResidualsMaReads(theta, t) \subseteq 0..(t - 1)

(* variant of ResidualsAt whose AR terms read x[t - j] instead of x[t - j - 1] *)
ResidualsAtShifted(x, intercept, phi, theta, residuals, t) ==
    LET ar == ResidualsArTerms(intercept, [i \in 1..(Len(x) - 1) |-> x[i + 1]],
                               phi, t, Len(phi))
        xt == ResidualsMaTerms(ar, theta, residuals, t, ResidualsMaCount(theta, t))
    IN  FSub(At(x, t), xt)

(* lines 63-70: the residual pushed in round t, given those pushed so far *)
ResidualsAt(x, intercept, phi, theta, residuals, t) ==
    LET ar == ResidualsArTerms(intercept, x, phi, t, Len(phi))
        xt == ResidualsMaTerms(ar, theta, residuals, t, ResidualsMaCount(theta, t))
    IN  FSub(At(x, t), xt)

(* lines 63-71: the iterations t = lo..hi of the loop *)
RECURSIVE ResidualsRounds(_, _, _, _, _, _, _)
ResidualsRounds(residuals, x, intercept, phi, theta, lo, hi) ==
    IF lo > hi THEN residuals
    ELSE IF lo = hi
         THEN Append(residuals, ResidualsAt(x, intercept, phi, theta, residuals, lo))
    ELSE LET mid == (lo + hi) \div 2
             half == ResidualsRounds(residuals, x, intercept, phi, theta, lo, mid)
         IN  IF Computed(half)
             THEN ResidualsRounds(half, x, intercept, phi, theta, mid + 1, hi)
             ELSE half

(* lines 58-71: the vector after the burn-in and the rounds                *)
(* t = phi.len() .. phi.len()+k-1 of the forward pass                      *)
ResidualsLoop(x, intercept, phi, theta, k) ==
    ResidualsRounds(ResidualsBurnIn(phi), x, intercept, phi, theta,
                    Len(phi), Len(phi) + k - 1)

TooManyItems == "Too many items in phi or theta"

(* lines 43-74; a read outside its vector would panic (an index below     *)
(* zero as an overflowing subtraction or, wrapped, as an index out of      *)
(* bounds)                                                                 *)
Residuals(x, intercept, phi_opt, theta_opt) ==
    LET phi == UnwrapOrEmpty(phi_opt)
        theta == UnwrapOrEmpty(theta_opt)
    IN  IF ResidualsTooMany(x, phi, theta) THEN Err(TooManyItems)
        ELSE IF ~ResidualsInRange(x, phi, theta) THEN Panic(IndexOOB)
        ELSE Ok(ResidualsLoop(x, intercept, phi, theta, Len(x) - Len(phi)))

----------------------------------------------------------------------------
(* acf.rs: ar_dl_rho_cov *)

(* variant of ArDlOrder that forgets the clamp to rho.len() - 1 *)
ArDlOrderUnclamped(n, order) ==
    IF order # None THEN order[1] ELSE n - 1

(* lines 207-210: the effective order for a non-empty rho of length n *)
ArDlOrder(n, order) ==
    IF order # None THEN Min(order[1], n - 1) ELSE n - 1

(* lines 234-241: num_sum after the rounds k = 1..r of the loop *)
ArDlNumSum(phi_prev, rho, i, r) ==
    SumFn([k \in 1..r |-> FMul(At(phi_prev, k - 1), At(rho, i - k))], 1, r)

(* lines 235-241: den_sum after the rounds k = 1..r of the loop *)
ArDlDenSum(phi_prev, rho, r) ==
    FAdd(F(1), SumFn([k \in 1..r |-> FMul(FNeg(At(phi_prev, k - 1)), At(rho, k))], 1, r))

(* line 243 *)
ArDlPhiII(phi_prev, rho, i) ==
    FDiv(FSub(At(rho, i), ArDlNumSum(phi_prev, rho, i, i - 1)),
         ArDlDenSum(phi_prev, rho, i - 1))

(* variant of ArDlUpdate that pairs phi[i-1][k-1] with itself instead of    *)
(* with the mirrored coefficient phi[i-1][i-k-1]                            *)
ArDlUpdateUnmirrored(phi_prev, phi_ii, i) ==
    [c \in 1..i |->
        IF c = i THEN phi_ii
        ELSE FSub(At(phi_prev, c - 1), FMul(phi_ii, At(phi_prev, c - 1)))]

(* lines 226-228, 244, 248-250: the vector phi[i]; c is k of the source *)
ArDlUpdate(phi_prev, phi_ii, i) ==
    [c \in 1..i |->
        IF c = i THEN phi_ii
        ELSE FSub(At(phi_prev, c - 1), FMul(phi_ii, At(phi_prev, i - c - 1)))]

(* line 246 *)
ArDlVar(var_prev, phi_ii) ==
    FMul(var_prev, FSub(F(1), FMul(phi_ii, phi_ii)))

(* variant of ArDlStore that writes the new coefficients into the row of   *)
(* the previous step as well                                               *)
ArDlStoreBoth(rows, row) ==
    Append([rows EXCEPT ![Len(rows)] = SubSeq(row, 1, Len(rows[Len(rows)]))], row)

(* lines 226-228, 244, 248-250: every write goes to phi[i], the row after  *)
(* the rows of the earlier steps                                           *)
ArDlStore(rows, row) == Append(rows, row)

(* lines 224-251: round i of the loop on the tables phi[0..i-1] and         *)
(* var[0..i-1]; ok is FALSE once rho[i] has been read out of range          *)
ArDlRound(prev, rho, i) ==
    IF ~prev.ok \/ i > Len(rho) - 1 THEN [ok |-> FALSE, phi |-> <<>>, var |-> <<>>]
    ELSE LET phi_prev == At(prev.phi, i - 1)
             phi_ii == ArDlPhiII(phi_prev, rho, i)
         IN  [ok |-> TRUE,
              phi |-> ArDlStore(prev.phi, Collect(ArDlUpdate(phi_prev, phi_ii, i), i)),
              var |-> Append(prev.var, ArDlVar(At(prev.var, i - 1), phi_ii))]

(* lines 224-251: the rounds i = lo..hi of the loop *)
RECURSIVE ArDlRounds(_, _, _, _)
ArDlRounds(prev, rho, lo, hi) ==
    IF lo > hi THEN prev
    ELSE IF lo = hi THEN ArDlRound(prev, rho, lo)
    ELSE LET mid == (lo + hi) \div 2
             half == ArDlRounds(prev, rho, lo, mid)
         IN  IF Computed(half) THEN ArDlRounds(half, rho, mid + 1, hi) ELSE half

(* lines 217-251: the tables phi[0..i] and var[0..i] after round i *)
ArDlLoop(rho, cov0, i) ==
    ArDlRounds([ok |-> TRUE, phi |-> <<<<F(0)>>>>, var |-> <<cov0>>], rho, 1, i)

(* ar_dl_rho_cov on an empty rho: rho.len() - 1 underflows at lines 208/209. *)
(* With overflow checks the subtraction panics.  Without them it wraps to   *)
(* usize::MAX: None makes order + 1 wrap to 0, so phi is empty and phi[0]   *)
(* is out of range; Some(0) returns the zero-order estimates; Some(k),      *)
(* k >= 1, reads rho[1].                                                    *)
ArDlEmpty(cov0, order, overflow_checks) ==
    IF overflow_checks THEN Panic(SubOverflow)
    ELSE IF order = None THEN Panic(IndexOOB)
    ELSE IF order[1] = 0 THEN Ok(<<<<F(0)>>, cov0>>)
    ELSE Panic(IndexOOB)

(* lines 202-254: Ok carries the pair (coefficients, variance) *)
ArDlRhoCov(rho, cov0, order, overflow_checks) ==
    IF Len(rho) = 0 THEN ArDlEmpty(cov0, order, overflow_checks)
    ELSE LET k == ArDlOrder(Len(rho), order)
             r == ArDlLoop(rho, cov0, k)
         IN  IF ~r.ok THEN Panic(IndexOOB)
             ELSE Ok(<<At(r.phi, k), At(r.var, k)>>)

----------------------------------------------------------------------------
(* acf.rs: ar_lapack_rho (feature "lapack") *)

(* variant of LapackMatrix that fills the strict triangle with rho[j - i - 1] *)
LapackMatrixShifted(rho, n) ==
    [p \in 1..(n * n) |->
        LET i == (p - 1) \div n
            j == (p - 1) % n
        IN  IF j > i THEN At(rho, j - i - 1) ELSE F(1)]

(* lines 140-146: mr, all 1.0 except mr[i * n + j] = rho[j - i] for j > i *)
LapackMatrix(rho, n) ==
    [p \in 1..(n * n) |->
        LET i == (p - 1) \div n
            j == (p - 1) % n
        IN  IF j > i THEN At(rho, j - i) ELSE F(1)]

(* lines 149-152: b = rho[1..=n] *)
LapackRhs(rho, n) == [i \in 1..n |-> At(rho, i)]

(* what dposv('L', n, 1, a, n, b, n) reads: column-major, lower triangle,  *)
(* so A(r, c) with r >= c is a[c * n + r]                                  *)
LowerA(a, n, r, c) == At(a, c * n + r)

(* line 160, the factorisation half of LAPACK's dposv: the Cholesky        *)
(* factorisation A = L D L^T of the lower triangle, columns 0..j-1 done.   *)
(* d[c] is the pivot whose square root Cholesky takes; the factorisation   *)
(* stops with info = c + 1 at the first pivot that is not positive (or is  *)
(* NaN).  The factor is kept as L D L^T so that no root is needed: the     *)
(* solution of the system is the same.                                     *)
RECURSIVE DposvFactor(_, _, _)
DposvFactor(a, n, j) ==
    IF j = 0 THEN [info |-> 0, l |-> [r \in 0..(n - 1) |-> <<>>], d |-> <<>>]
    ELSE LET prev == DposvFactor(a, n, j - 1)
             c == j - 1
             dc == FSub(LowerA(a, n, c, c),
                        SumFn([k \in 1..c |->
                                 FMul(FMul(prev.l[c][k], prev.l[c][k]), prev.d[k])], 1, c))
         IN  IF prev.info # 0 THEN prev
             ELSE IF ~FLt(F(0), dc) THEN [prev EXCEPT !.info = c + 1]
             ELSE [info |-> 0,
                   d |-> Append(prev.d, dc),
                   l |-> [r \in 0..(n - 1) |->
                            IF r <= c THEN prev.l[r]
                            ELSE Append(prev.l[r],
                                   FDiv(FSub(LowerA(a, n, r, c),
                                             SumFn([k \in 1..c |->
                                                      FMul(FMul(prev.l[r][k], prev.l[c][k]),
                                                           prev.d[k])], 1, c)),
                                        dc))]]

(* forward substitution L z = b, entries 0..r-1 *)
RECURSIVE DposvForward(_, _, _)
DposvForward(l, b, r) ==
    IF r = 0 THEN <<>>
    ELSE LET z == DposvForward(l, b, r - 1)
         IN  Append(z, FSub(b[r], SumFn([k \in 1..(r - 1) |-> FMul(l[r - 1][k], z[k])],
                                        1, r - 1)))

(* back substitution L^T x = w, entries r..n of x (1-based), as a function *)
RECURSIVE DposvBackward(_, _, _, _)
DposvBackward(l, w, n, r) ==
    IF r > n THEN [i \in {} |-> F(0)]
    ELSE LET x == DposvBackward(l, w, n, r + 1)
         IN  [i \in r..n |->
                IF i > r THEN x[i]
                ELSE FSub(w[r], SumFn([k \in (r + 1)..n |-> FMul(l[k - 1][r], x[k])],
                                      r + 1, n))]

(* line 160: dposv for n >= 1; info and the solution left in b *)
Dposv(a, b, n) ==
    LET f == DposvFactor(a, n, n)
        z == DposvForward(f.l, b, n)
        w == [i \in 1..n |-> FDiv(z[i], f.d[i])]
        x == DposvBackward(f.l, w, n, 1)
    IN  IF f.info # 0 THEN [info |-> f.info, b |-> b]
        ELSE [info |-> 0, b |-> [i \in 1..n |-> x[i]]]

ArimaError == "ArimaError"

(* lines 126-173, for a rho and an order whose effective order is >= 1 *)
ArLapackRho(rho, order) ==
    LET n == ArDlOrder(Len(rho), order)
        r == Dposv(LapackMatrix(rho, n), LapackRhs(rho, n), n)
    IN  IF r.info # 0 THEN Err(ArimaError) ELSE Ok(r.b)

----------------------------------------------------------------------------
(* acf.rs: pacf_rho_cov0, pacf, ar *)

(* variant of PacfEntry that takes the first coefficient of the solution *)
PacfEntryFirst(coef, i) == At(coef, 0)

(* line 400: coef[i - 1], the last of the i coefficients *)
PacfEntry(coef, i) == At(coef, i - 1)

(* lines 396-401: the loop for i in 1..m, entries 1..k pushed *)
PacfLoop(rho, cov0, k) ==
    Collect([i \in 1..k |-> PacfEntry(ArDlRhoCov(rho, cov0, Some(i), TRUE).val[1], i)], k)

(* pacf_rho_cov0 on an empty rho: rho.len() - 1 underflows at lines 388/389. *)
(* With overflow checks the subtraction panics.  Without them it wraps to   *)
(* usize::MAX: None makes m wrap to 0 and the loop empty, Some(0) gives an  *)
(* empty loop too, and Some(k), k >= 1, reads rho[1] in ar_dl_rho_cov.      *)
PacfEmpty(max_lag, overflow_checks) ==
    IF overflow_checks THEN Panic(SubOverflow)
    ELSE IF max_lag = None \/ max_lag[1] = 0 THEN Ok(<<>>)
    ELSE Panic(IndexOOB)

(* lines 381-403 *)
PacfRhoCov0(rho, cov0, max_lag, overflow_checks) ==
    IF Len(rho) = 0 THEN PacfEmpty(max_lag, overflow_checks)
    ELSE Ok(PacfLoop(rho, cov0, ArDlOrder(Len(rho), max_lag)))

(* the ? operator: an Err or a panic of the callee ends the caller *)
Failed(r) == r.tag # "Ok"

(* lines 353-355: the ? on rho and cov0, then pacf_rho_cov0 *)
PacfFromAcf(rho, cov, max_lag, overflow_checks) ==
    IF Failed(rho) THEN rho
    ELSE IF Failed(cov) THEN cov
    ELSE PacfRhoCov0(rho.val, At(cov.val, 0), max_lag, overflow_checks)

(* lines 348-356 *)
Pacf(x, max_lag, overflow_checks) ==
    PacfFromAcf(Acf(x, max_lag, FALSE, overflow_checks),
                Acf(x, Some(0), TRUE, overflow_checks), max_lag, overflow_checks)

(* line 97: order.map(|order| order + 1) *)
ArMaxLag(order) == IF order = None THEN None ELSE Some(order[1] + 1)

(* lines 98-100: the ? on rho and cov0, then ar_dl_rho_cov *)
ArFromAcf(rho, cov, order, overflow_checks) ==
    IF Failed(rho) THEN rho
    ELSE IF Failed(cov) THEN cov
    ELSE ArDlRhoCov(rho.val, At(cov.val, 0), order, overflow_checks)

(* lines 93-101 *)
Ar(x, order, overflow_checks) ==
    ArFromAcf(Acf(x, ArMaxLag(order), FALSE, overflow_checks),
              Acf(x, Some(0), TRUE, overflow_checks), order, overflow_checks)

----------------------------------------------------------------------------
(* util.rs: diff, cumsum, diffinv, mean *)

(* what a function without a Result returns *)
Return(v) == [tag |-> "Return", val |-> v]

DrainOOB == "range end index out of range for slice"

(* variant of DiffStep that walks the vector forwards: y[s+i] -= y[s+i-1] *)
DiffStepForward(p, len, s, i) ==
    LET w == s + i
        r == s + i - 1
    IN  [y |-> [p.y EXCEPT ![w + 1] = FSub(At(p.y, w), At(p.y, r))],
         written |-> p.written \cup {w},
         stale |-> p.stale \/ r \in p.written \/ w \in p.written]

(* line 56, iteration i of pass s: y[len - i] = y[len - i] - y[len - i - 1]. *)
(* written is the set of indices assigned so far in this pass, stale        *)
(* whether an iteration has read an index of that set                       *)
DiffStep(p, len, s, i) ==
    LET w == len - i
        r == len - i - 1
    IN  [y |-> [p.y EXCEPT ![w + 1] = FSub(At(p.y, w), At(p.y, r))],
         written |-> p.written \cup {w},
         stale |-> p.stale \/ r \in p.written \/ w \in p.written]

(* lines 54-57: the iterations i = lo..hi of pass s *)
RECURSIVE DiffSteps(_, _, _, _, _)
DiffSteps(p, len, s, lo, hi) ==
    IF lo > hi THEN p
    ELSE IF lo = hi THEN DiffStep(p, len, s, lo)
    ELSE LET mid == (lo + hi) \div 2
             half == DiffSteps(p, len, s, lo, mid)
         IN  IF Computed(half) THEN DiffSteps(half, len, s, mid + 1, hi) ELSE half

(* lines 54-57: the iterations 1..i of pass s *)
DiffPass(y, len, s, i) ==
    DiffSteps([y |-> y, written |-> {}, stale |-> FALSE], len, s, 1, i)

(* lines 51-58 for d <= len: the copy x.to_vec() and the passes s = 0..k-1 *)
RECURSIVE DiffPasses(_, _)
DiffPasses(x, k) ==
    IF k = 0 THEN [y |-> Collect(x, Len(x)), stale |-> FALSE]
    ELSE LET p == DiffPasses(x, k - 1)
             q == DiffPass(p.y, Len(x), k - 1, Len(x) - (k - 1) - 1)
         IN  [y |-> q.y, stale |-> p.stale \/ q.stale]

(* line 59: y.drain(0..d) *)
Drain(y, d) == SubSeq(y, d + 1, Len(y))

(* lines 50-61.  For d > len the call panics: at d = len + 1 the drain     *)
(* range is out of bounds, beyond that len - s underflows (a panic with    *)
(* overflow checks, otherwise an index out of bounds in the first write).  *)
Diff(x, d) ==
    IF d > Len(x) THEN Panic(IF d = Len(x) + 1 THEN DrainOOB ELSE SubOverflow)
    ELSE Return(Drain(DiffPasses(x, d).y, d))

(* variant of CumsumNext that adds the two neighbours of x *)
CumsumNextFlat(y, x, i) == FAdd(At(x, i - 1), At(x, i))

(* line 121: y[i - 1] + x[i] *)
CumsumNext(y, x, i) == FAdd(At(y, i - 1), At(x, i))

(* lines 119-122: y after the pushes of x[0] and of the rounds i = 1..k-1 *)
RECURSIVE CumsumLoop(_, _)
CumsumLoop(x, k) ==
    IF k = 1 THEN <<x[1]>>
    ELSE LET y == CumsumLoop(x, k - 1) IN Append(y, CumsumNext(y, x, k - 1))

(* lines 113-124 *)
Cumsum(x) == IF Len(x) < 2 THEN <<F(0)>> ELSE CumsumLoop(x, Len(x))

(* lines 155-157 *)
RECURSIVE DiffinvLoop(_, _)
DiffinvLoop(cum, k) == IF k = 0 THEN cum ELSE Cumsum(DiffinvLoop(cum, k - 1))

(* variant of DiffinvPad that puts the d zeros behind x *)
DiffinvPadBehind(x, d) == x \o [i \in 1..d |-> F(0)]

(* line 152: d zeros in front of x *)
DiffinvPad(x, d) == [i \in 1..d |-> F(0)] \o x

(* lines 148-159 *)
Diffinv(x, d) == Return(DiffinvLoop(DiffinvPad(x, d), d))

(* lines 179-183: the fold from zero divided by n; 0/0 for an empty x *)
Mean(x) == FDiv(SumFn(x, 1, Len(x)), F(Len(x)))

----------------------------------------------------------------------------
(* estimate.rs: fit.  The call is followed step by step through the        *)
(* optimizer: fit is the progress of the fit call in flight.               *)

(* line 168: with_max_iterations(200) *)
MaxIterations == 200

AssertFailed == "assertion failed: (left == right)"

UnwrapErr == "called Result::unwrap() on an Err value"

NoFit ==
    [phase |-> "none", x |-> <<>>, ar |-> 0, d |-> 0, ma |-> 0, start |-> <<>>,
     coef |-> <<>>, evaluated |-> <<>>, css |-> F(0), iter |-> 0, warned |-> FALSE]

(* line 118 *)
TotalSize(ar, ma) == 1 + ar + ma

(* lines 113-115: the series the fit works on *)
FitSeries(x, d) == IF d > 0 THEN Diff(x, d) ELSE Return(x)

(* lines 149-154: the PACF values pushed behind the intercept *)
FitPacf(x, ar, overflow_checks) ==
    IF ar > 0 THEN Pacf(x, Some(ar), overflow_checks) ELSE Ok(<<>>)

(* lines 141-159: the initial coefficients for the series x *)
FitInitialCoef(x, pacf, ma) == <<Mean(x)>> \o pacf \o [i \in 1..ma |-> F(1)]

(* the state of fit at its call of minimize, line 169 *)
FitAt(x, ar, d, ma, coef) ==
    [NoFit EXCEPT !.phase = "initial", !.x = x, !.ar = ar, !.d = d, !.ma = ma,
                  !.start = coef, !.coef = coef]

(* lines 141-159 on the differenced series x: the unwrap of pacf and the   *)
(* initial coefficients                                                    *)
FitFromPacf(x, pacf, ar, d, ma) ==
    IF pacf.tag = "Panic" THEN pacf
    ELSE IF pacf.tag = "Err" THEN Panic(UnwrapErr)
    ELSE Return(FitAt(x, ar, d, ma, FitInitialCoef(x, pacf.val, ma)))

(* lines 116-159 on the result dx of the differencing *)
FitFromSeries(dx, ar, d, ma, overflow_checks) ==
    IF dx.tag = "Panic" THEN dx
    ELSE FitFromPacf(dx.val, FitPacf(dx.val, ar, overflow_checks), ar, d, ma)

(* lines 100-159: fit up to the call of minimize; a panic of diff or of    *)
(* the unwrap of pacf ends the call                                        *)
FitBegin(x, ar, d, ma, overflow_checks) ==
    FitFromSeries(FitSeries(x, d), ar, d, ma, overflow_checks)

(* lines 131-134: the sum of the squared residuals *)
Css(residuals) == SumFn([i \in 1..Len(residuals) |-> FMul(residuals[i], residuals[i])],
                        1, Len(residuals))

(* lines 122-137: the objective f on the series x with orders ar, ma.      *)
(* The slices coef[1..ar+1] and coef[ar+1..] are taken after the assertion *)
(* and so are always in range.                                             *)
FitObjective(x, ar, ma, coef) ==
    IF Len(coef) # TotalSize(ar, ma) THEN Panic(AssertFailed)
    ELSE LET intercept == At(coef, 0)
             phi == SubSeq(coef, 2, ar + 1)
             theta == SubSeq(coef, ar + 2, Len(coef))
             r == Residuals(x, intercept, Some(phi), Some(theta))
         IN  IF r.tag # "Ok" THEN Panic(UnwrapErr) ELSE Return(Css(r.val))

(* the values the optimizer moves the coefficients to *)
OptimizerVals == {F(0), F(1)}

(* minimize works in place on the slice &mut coef: every point it visits   *)
(* has the length of the initial vector                                    *)
OptimizerPoints(n) == {[i \in 1..n |-> v] : v \in OptimizerVals}

(* line 179: Ok(coef) *)
FitResult(f) == Ok(f.coef)

----------------------------------------------------------------------------
(* estimate.rs: autofit *)

(* line 202 *)
NLags == 12

(* line 207: ppf = 1.959963984540054; ppf^2 = 3.84145882069..., kept to    *)
(* eight decimal places as PpfSqNum / PpfSqDen                             *)
PpfSqNum == 384145882

PpfSqDen == 100000000

SliceOOB == "slice index starts at 1 but ends at 0"

(* a/b < c/d for naturals a, c and positive b, d, by continued fractions *)
RECURSIVE FracLt(_, _, _, _)
FracLt(a, b, c, d) ==
    IF a \div b # c \div d THEN a \div b < c \div d
    ELSE IF c % d = 0 THEN FALSE
    ELSE IF a % b = 0 THEN TRUE
    ELSE FracLt(d, c % d, b, a % b)

(* lines 220-231 and 238: interval = ppf * sqrt(v), confint = (a - q,      *)
(* a + q), bounds = (l - a, u - a), and the test a < l || a > u.  For      *)
(* finite a and v >= 0 the bounds are -q and q, so the test is             *)
(* a^2 > ppf^2 * v; a NaN or infinite a or v makes both comparisons false. *)
Outside(a, v) ==
    IF ~IsFinite(a) \/ ~IsFinite(v) \/ v[1] < 0 THEN FALSE
    ELSE IF v[1] = 0 THEN a[1] # 0
    ELSE LET r == FDiv(FMul(a, a), v)
         IN  FracLt(PpfSqNum, PpfSqDen, r[1], r[2])

(* lines 212-216: the accumulator of the scan after k items of             *)
(* _acf[1.._acf.len() - 1]                                                 *)
AutofitAcc(acf, k) == SumFn([j \in 1..k |-> FMul(At(acf, j), At(acf, j))], 1, k)

(* lines 211-217: mult, one entry per item of the slice *)
AutofitMult(acf) ==
    [i \in 1..(Len(acf) - 2) |-> FAdd(F(1), FMul(F(2), AutofitAcc(acf, i)))]

(* variant of AutofitVaracf that starts the sum one lag late: entry 2 + i  *)
(* of varacf from mult[i - 1]                                              *)
AutofitVaracfLate(acf, n) ==
    <<F(0), FDiv(F(1), F(n))>> \o
    [i \in 1..(Len(acf) - 2) |->
        FMul(FDiv(F(1), F(n)), IF i = 1 THEN F(1) ELSE AutofitMult(acf)[i - 1])]

(* lines 218-220: varacf = [0, 1/n] extended by 1/n * mult[i] *)
AutofitVaracf(acf, n) ==
    <<F(0), FDiv(F(1), F(n))>> \o
    [i \in 1..(Len(acf) - 2) |-> FMul(FDiv(F(1), F(n)), AutofitMult(acf)[i])]

(* take_while(..).count(): the length of the leading run of TRUE in flags, *)
(* from position k on                                                      *)
TakeWhileCount(flags, k) ==
    LET stops == {i \in k..Len(flags) : ~flags[i]}
    IN  IF stops = {} THEN Len(flags) - k + 1
        ELSE (CHOOSE i \in stops : \A j \in stops : i <= j) - k

(* lines 234-240: the leading run over zip(_acf, bounds) *)
AutofitMaRun(acf, n) ==
    TakeWhileCount([i \in 1..Len(acf) |-> Outside(acf[i], AutofitVaracf(acf, n)[i])], 1)

(* variant of AutofitArOrder with the variance 1 in place of 1/n *)
AutofitArOrderUnscaled(pacf, n) ==
    TakeWhileCount([i \in 1..Len(pacf) |-> Outside(pacf[i], F(1))], 1)

(* lines 244-262: the leading run over zip(_pacf, pacf_bounds) *)
AutofitArOrder(pacf, n) ==
    TakeWhileCount([i \in 1..Len(pacf) |-> Outside(pacf[i], FDiv(F(1), F(n)))], 1)

(* lines 240, 262-264: count() - 1 and the orders *)
AutofitPair(run, ar_order) ==
    IF run = 0 THEN Panic(SubOverflow) ELSE Return([ar |-> ar_order, ma |-> run - 1])

(* lines 210-264 on the results of acf (line 210) and of pacf (line 244) *)
AutofitSelect(n, acf, pacf) ==
    IF acf.tag = "Panic" THEN acf
    ELSE IF acf.tag = "Err" THEN Panic(UnwrapErr)
    ELSE IF Len(acf.val) < 2 THEN Panic(SliceOOB)
    ELSE IF AutofitMaRun(acf.val, n) = 0 THEN Panic(SubOverflow)
    ELSE IF pacf.tag = "Panic" THEN pacf
    ELSE IF pacf.tag = "Err" THEN Panic(UnwrapErr)
    ELSE AutofitPair(AutofitMaRun(acf.val, n), AutofitArOrder(pacf.val, n))

(* lines 194-264: autofit up to its call of fit: the orders (ar, ma), or   *)
(* the panic of an unwrap, of the slice _acf[1.._acf.len() - 1] of a       *)
(* one-element _acf, or of the subtraction count() - 1 (without overflow   *)
(* checks the order wraps to usize::MAX and coef.resize aborts)            *)
AutofitOrdersOf(x, overflow_checks) ==
    AutofitSelect(Len(x), Acf(x, Some(NLags), FALSE, overflow_checks),
                  Pacf(x, Some(NLags), overflow_checks))

(* variant of AutofitSeries that selects the orders on the differenced series *)
AutofitSeriesDifferenced(x, d) == IF d <= Len(x) THEN Diff(x, d).val ELSE x

(* lines 200, 210, 244: acf and pacf are taken of the series as given; d is *)
(* read at line 265 only                                                   *)
AutofitSeries(x, d) == x

(* lines 194-264 of autofit(x, d) *)
AutofitOrders(x, d, overflow_checks) == AutofitOrdersOf(AutofitSeries(x, d), overflow_checks)

----------------------------------------------------------------------------
(* sim.rs: arima_sim (lines 38-105) and arima_forecast (lines 143-202)     *)
(*                                                                         *)
(* The noise function is the client's closure.  It is modelled as a named  *)
(* stream of samples; every call of it takes one sample from the generator *)
(* and rng is the number of samples taken so far.                          *)

(* lines 49-56, 156-163: the order of an optional coefficient slice *)
SimOrder(c) == IF c = None THEN 0 ELSE Len(c[1])

(* the k-th sample (k = 0, 1, ...) of the client's noise stream *)
Sample(noise_fn, k) ==
    IF noise_fn = "unit" THEN F(1)
    ELSE IF k % 2 = 0 THEN F(1) ELSE F(-1)

(* variant of SimBurnIn that forgets the MA order *)
SimBurnInAr(ar_order, ma_order) == ar_order + 10

(* line 59 *)
SimBurnIn(ar_order, ma_order) == ar_order + ma_order + 10

(* lines 60-63: len samples pushed to x *)
SimNoise(noise_fn, len) == Collect([k \in 1..len |-> Sample(noise_fn, k - 1)], len)

(* lines 75-77, 175-177: the inner loop of the MA part at index i (0-based) *)
SimMaAt(x, noise, ma, i) ==
    FAdd(At(x, i), SumFn([j \in 1..Len(ma) |-> FMul(ma[j], At(noise, i - j))], 1, Len(ma)))

(* lines 66-82: the MA part of arima_sim over a copy of the noise; the     *)
(* first ma_order entries are set to zero                                  *)
SimMa(x, ma) ==
    IF Len(ma) = 0 THEN x
    ELSE Collect([k \in 1..Len(x) |->
                    IF k - 1 < Len(ma) THEN F(0) ELSE SimMaAt(x, x, ma, k - 1)], Len(x))

(* lines 89-91, 185-187: x[i] += ar[j] * x[i - j - 1] for j in 0..ar_order *)
SimArRound(x, ar, i) ==
    [x EXCEPT ![i + 1] =
        FAdd(At(x, i), SumFn([j \in 1..Len(ar) |-> FMul(ar[j], At(x, i - j))], 1, Len(ar)))]

(* lines 88-92, 184-188: the rounds i = lo..hi in increasing order *)
RECURSIVE SimArRounds(_, _, _, _)
SimArRounds(x, ar, lo, hi) ==
    IF lo > hi THEN x
    ELSE IF lo = hi THEN SimArRound(x, ar, lo)
    ELSE LET mid == (lo + hi) \div 2
             half == SimArRounds(x, ar, lo, mid)
         IN  IF Computed(half) THEN SimArRounds(half, ar, mid + 1, hi) ELSE half

(* lines 85-94: the AR part of arima_sim *)
SimAr(x, ar, ma_order) ==
    IF Len(ar) = 0 THEN x ELSE SimArRounds(x, ar, ma_order + Len(ar), Len(x) - 1)

(* Option<&[f64]> as a slice: None has no coefficients *)
SimCoef(c) == IF c = None THEN <<>> ELSE c[1]

(* lines 59-94: the vector x of arima_sim before the burn-in is removed *)
SimVector(n, ar, ma, noise_fn) ==
    SimAr(SimMa(SimNoise(noise_fn, SimBurnIn(SimOrder(ar), SimOrder(ma)) + n), SimCoef(ma)),
          SimCoef(ar), SimOrder(ma))

SliceOrder == "slice index starts after its end"

(* lines 97-104: x[burn_in..x.len() - d] panics when d > n *)
SimTail(x, burn_in, d) ==
    IF d > 0
    THEN IF burn_in > Len(x) - d THEN Panic(SliceOrder)
         ELSE Ok(Diffinv(SubSeq(x, burn_in + 1, Len(x) - d), d).val)
    ELSE Ok(Drain(x, burn_in))

(* lines 38-105 *)
ArimaSim(n, ar, ma, d, noise_fn) ==
    SimTail(SimVector(n, ar, ma, noise_fn), SimBurnIn(SimOrder(ar), SimOrder(ma)), d)

(* lines 166-169: the series followed by n samples noise_fn(i, rng) *)
ForecastNoise(ts, n, noise_fn) ==
    Collect([k \in 1..Len(ts) + n |->
               IF k <= Len(ts) THEN ts[k] ELSE Sample(noise_fn, k - Len(ts) - 1)], Len(ts) + n)

(* lines 172-180: the MA part of arima_forecast over a copy x_ of x *)
ForecastMa(x, ma, n_past) ==
    IF Len(ma) = 0 THEN x
    ELSE Collect([k \in 1..Len(x) |->
                    IF k <= n_past THEN x[k] ELSE SimMaAt(x, x, ma, k - 1)], Len(x))

(* lines 183-190: the AR part of arima_forecast *)
ForecastAr(x, ar, n_past) ==
    IF Len(ar) = 0 THEN x ELSE SimArRounds(x, ar, n_past, Len(x) - 1)

(* lines 152-190: the vector x of arima_forecast before the past is removed *)
ForecastVector(ts, n, ar, ma, noise_fn) ==
    ForecastAr(ForecastMa(ForecastNoise(ts, n, noise_fn), SimCoef(ma), Len(ts)),
               SimCoef(ar), Len(ts))

(* lines 195, 198: the first index of x that belongs to the forecast *)
ForecastFrom(n_past) == n_past

(* lines 193-201 *)
ForecastTail(x, n_past, d) ==
    IF d > 0
    THEN Ok(Drain(Diffinv(Drain(x, ForecastFrom(n_past)), d).val, d))
    ELSE Ok(Drain(x, ForecastFrom(n_past)))

(* lines 176, 186: with n > 0 the first round reads x[n_past - j - 1] for  *)
(* j up to the order minus one, which is below zero when the series is     *)
(* shorter than the order: the subtraction panics, or wraps and the index  *)
(* is out of bounds                                                        *)
ForecastShort(ts, n, ar, ma) ==
    n > 0 /\ (Len(ts) < SimOrder(ma) \/ Len(ts) < SimOrder(ar))

(* lines 143-202 *)
ArimaForecast(ts, n, ar, ma, d, noise_fn, overflow_checks) ==
    IF ForecastShort(ts, n, ar, ma)
    THEN Panic(IF overflow_checks THEN SubOverflow ELSE IndexOOB)
    ELSE ForecastTail(ForecastVector(ts, n, ar, ma, noise_fn), Len(ts), d)

----------------------------------------------------------------------------
(* Inputs *)

RECURSIVE SeqsUpTo(_, _)
SeqsUpTo(S, n) ==
    IF n = 0 THEN {<<>>}
    ELSE LET prev == SeqsUpTo(S, n - 1)
         IN  prev \cup {Append(s, v) : s \in {p \in prev : Len(p) = n - 1}, v \in S}

(* the series of the doc examples: [1.0, 1.2, 1.4, 1.6] *)
ExampleX == <<F(1), Norm(6, 5), Norm(7, 5), Norm(8, 5)>>

Vals == {F(v) : v \in 0..MaxVal} \cup {NaN}

AcfSeries == SeqsUpTo(Vals, MaxLen) \cup {ExampleX}

OptLags == {None} \cup {Some(k) : k \in 0..MaxLag}

----------------------------------------------------------------------------
Coefs == {F(-1), Norm(1, 2)}

ResSeries == SeqsUpTo({F(v) : v \in 0..MaxVal}, MaxResLen)

OptCoefs == {None} \cup {Some(c) : c \in SeqsUpTo(Coefs, MaxCoef)}

(* scenario 3: phi = [0.6, 0.4], theta = [0.3] *)
ExamplePhi == <<Norm(3, 5), Norm(2, 5)>>

ExampleTheta == <<Norm(3, 10)>>

RhoVals == {Norm(-1, 2), F(0), Norm(1, 2), F(1)}

(* rho and cov0 as ar() computes them from the example series *)
ExampleRho == Acf(ExampleX, None, FALSE, TRUE).val

ExampleCov0 == At(Acf(ExampleX, Some(0), TRUE, TRUE).val, 0)

RhoSeqs == SeqsUpTo(RhoVals, MaxRho) \cup {ExampleRho}

OptOrders == {None} \cup {Some(k) : k \in 0..MaxOrder}

(* finite series and the autocorrelations acf(x, None, false) of those     *)
(* with at least two elements                                              *)
FiniteSeries == SeqsUpTo({F(v) : v \in 0..MaxVal}, MaxLen) \cup {ExampleX}

AcfRhos == {Acf(x, None, FALSE, TRUE).val : x \in {s \in FiniteSeries : Len(s) >= 2}}

(* ar_lapack_rho is called with an effective order of at least 1 *)
LapackOrders == {None} \cup {Some(k) : k \in 1..MaxOrder}

(* the series of the doc example of fit (estimate.rs:95) and its prefixes *)
ExampleFitX ==
    <<F(1), Norm(6, 5), Norm(7, 5), Norm(8, 5), Norm(7, 5), Norm(6, 5), F(1)>>

FitInputs == {SubSeq(ExampleFitX, 1, Min(k, Len(ExampleFitX))) : k \in 0..MaxFitLen}

(* series longer than the lag horizon of autofit: 1, -1, 1, .. (14 items), *)
(* 0, -1, 0, .. (16 items) and 1, 0, 2, 1, 0, 2, .. (16 items)             *)
LongSeries ==
    {[i \in 1..14 |-> IF i % 2 = 1 THEN F(1) ELSE F(-1)],
     [i \in 1..16 |-> IF i % 2 = 1 THEN F(0) ELSE F(-1)],
     [i \in 1..16 |-> IF i % 3 = 1 THEN F(1) ELSE IF i % 3 = 2 THEN F(0) ELSE F(2)]}

(* a constant series: its ACF is NaN beyond lag 0 *)
ConstantSeries == <<F(1), F(1), F(1)>>

AutofitInputs == FitInputs \cup LongSeries \cup {ConstantSeries}

(* the vectors handed to diff and diffinv *)
UtilSeries == SeqsUpTo({F(v) : v \in (-1)..MaxVal}, MaxLen)

----------------------------------------------------------------------------
(* A behaviour is one call: Init draws the function and its arguments, the *)
(* action of that function runs it to completion and stores what it        *)
(* returned.                                                               *)

Pending == [tag |-> "Pending", val |-> <<>>]

AcfCalls(c) ==
    \E x \in AcfSeries, max_lag \in OptLags, covariance \in BOOLEAN,
       overflow_checks \in BOOLEAN :
        c = [fn |-> "acf", x |-> x, max_lag |-> max_lag, covariance |-> covariance,
             overflow_checks |-> overflow_checks]

ResidualsCalls(c) ==
    \/ \E x \in ResSeries, intercept \in {F(0), F(1)}, phi \in OptCoefs,
          theta \in OptCoefs :
           c = [fn |-> "residuals", x |-> x, intercept |-> intercept, phi |-> phi,
                theta |-> theta]
    \/ c = [fn |-> "residuals", x |-> ExampleX, intercept |-> F(0),
            phi |-> Some(ExamplePhi), theta |-> Some(ExampleTheta)]

ArDlCalls(c) ==
    \E rho \in RhoSeqs, cov0 \in {F(1), ExampleCov0}, order \in OptOrders,
       overflow_checks \in BOOLEAN :
        c = [fn |-> "ar_dl_rho_cov", rho |-> rho, cov0 |-> cov0, order |-> order,
             overflow_checks |-> overflow_checks]

ArLapackCalls(c) ==
    \E rho \in {r \in RhoSeqs : Len(r) >= 2} \cup AcfRhos, order \in LapackOrders :
        c = [fn |-> "ar_lapack_rho", rho |-> rho, order |-> order]

PacfCalls(c) ==
    \E x \in AcfSeries, max_lag \in OptLags, overflow_checks \in BOOLEAN :
        c = [fn |-> "pacf", x |-> x, max_lag |-> max_lag,
             overflow_checks |-> overflow_checks]

PacfRhoCalls(c) ==
    \E rho \in RhoSeqs, max_lag \in OptOrders, overflow_checks \in BOOLEAN :
        c = [fn |-> "pacf_rho_cov0", rho |-> rho, cov0 |-> ExampleCov0,
             max_lag |-> max_lag, overflow_checks |-> overflow_checks]

ArCalls(c) ==
    \E x \in AcfSeries, order \in OptOrders, overflow_checks \in BOOLEAN :
        c = [fn |-> "ar", x |-> x, order |-> order, overflow_checks |-> overflow_checks]

DiffCalls(c) ==
    \E x \in UtilSeries, d \in 0..MaxLag : c = [fn |-> "diff", x |-> x, d |-> d]

CumsumCalls(c) == \E x \in UtilSeries : c = [fn |-> "cumsum", x |-> x]

DiffinvCalls(c) ==
    \E x \in UtilSeries, d \in 0..MaxDiff : c = [fn |-> "diffinv", x |-> x, d |-> d]

(* coefficient slices handed to arima_sim and arima_forecast *)
SimCoefs == {None, Some(<<>>), Some(<<Norm(1, 2)>>), Some(<<F(1), F(-1)>>)}

NoiseFns == {"unit", "alternating"}

ForecastSeries == {<<>>, <<F(1)>>, <<F(1), F(2)>>, <<F(2), F(1), F(3)>>}

SimCalls(c) ==
    \E n \in 0..MaxSimN, ar \in SimCoefs, ma \in SimCoefs, d \in 0..MaxDiff,
       noise_fn \in NoiseFns :
        c = [fn |-> "arima_sim", n |-> n, ar |-> ar, ma |-> ma, d |-> d,
             noise_fn |-> noise_fn]

ForecastCalls(c) ==
    \E ts \in ForecastSeries, n \in 0..MaxSimN, ar \in SimCoefs, ma \in SimCoefs,
       d \in 0..MaxDiff, noise_fn \in NoiseFns :
        c = [fn |-> "arima_forecast", ts |-> ts, n |-> n, ar |-> ar, ma |-> ma,
             d |-> d, noise_fn |-> noise_fn]

FitCalls(c) ==
    \E x \in FitInputs, ar \in 0..MaxAr, d \in 0..MaxDiff, ma \in 0..MaxMa :
        c = [fn |-> "fit", x |-> x, ar |-> ar, d |-> d, ma |-> ma]

AutofitCalls(c) ==
    \E x \in AutofitInputs, d \in 0..MaxDiff : c = [fn |-> "autofit", x |-> x, d |-> d]

CallAcf ==
    /\ call.fn = "acf"
    /\ ret = Pending
    /\ ret' = Acf(call.x, call.max_lag, call.covariance, call.overflow_checks)
    /\ UNCHANGED <<call, fit, rng>>

CallResiduals ==
    /\ call.fn = "residuals"
    /\ ret = Pending
    /\ ret' = Residuals(call.x, call.intercept, call.phi, call.theta)
    /\ UNCHANGED <<call, fit, rng>>

CallArDlRhoCov ==
    /\ call.fn = "ar_dl_rho_cov"
    /\ ret = Pending
    /\ ret' = ArDlRhoCov(call.rho, call.cov0, call.order, call.overflow_checks)
    /\ UNCHANGED <<call, fit, rng>>

CallArLapackRho ==
    /\ call.fn = "ar_lapack_rho"
    /\ ret = Pending
    /\ ret' = ArLapackRho(call.rho, call.order)
    /\ UNCHANGED <<call, fit, rng>>

CallPacf ==
    /\ call.fn = "pacf"
    /\ ret = Pending
    /\ ret' = Pacf(call.x, call.max_lag, call.overflow_checks)
    /\ UNCHANGED <<call, fit, rng>>

CallPacfRhoCov0 ==
    /\ call.fn = "pacf_rho_cov0"
    /\ ret = Pending
    /\ ret' = PacfRhoCov0(call.rho, call.cov0, call.max_lag, call.overflow_checks)
    /\ UNCHANGED <<call, fit, rng>>

CallAr ==
    /\ call.fn = "ar"
    /\ ret = Pending
    /\ ret' = Ar(call.x, call.order, call.overflow_checks)
    /\ UNCHANGED <<call, fit, rng>>

CallDiff ==
    /\ call.fn = "diff"
    /\ ret = Pending
    /\ ret' = Diff(call.x, call.d)
    /\ UNCHANGED <<call, fit, rng>>

CallCumsum ==
    /\ call.fn = "cumsum"
    /\ ret = Pending
    /\ ret' = Return(Cumsum(call.x))
    /\ UNCHANGED <<call, fit, rng>>

CallDiffinv ==
    /\ call.fn = "diffinv"
    /\ ret = Pending
    /\ ret' = Diffinv(call.x, call.d)
    /\ UNCHANGED <<call, fit, rng>>

(* estimate.rs:100-159: fit from its entry to the call of minimize.  The   *)
(* build's overflow checks only change the message of a panic.             *)
(* arima_sim: burn_in + n samples are taken (lines 60-63) *)
CallArimaSim ==
    /\ call.fn = "arima_sim"
    /\ ret = Pending
    /\ ret' = ArimaSim(call.n, call.ar, call.ma, call.d, call.noise_fn)
    /\ rng' = rng + SimBurnIn(SimOrder(call.ar), SimOrder(call.ma)) + call.n
    /\ UNCHANGED <<call, fit>>

(* arima_forecast: n samples are taken (lines 166-169) *)
CallArimaForecast ==
    /\ call.fn = "arima_forecast"
    /\ ret = Pending
    /\ \E overflow_checks \in BOOLEAN :
         ret' = ArimaForecast(call.ts, call.n, call.ar, call.ma, call.d, call.noise_fn,
                              overflow_checks)
    /\ rng' = rng + call.n
    /\ UNCHANGED <<call, fit>>

FitEntered(b) ==
    /\ ret = Pending
    /\ fit.phase \in {"none", "selected"}
    /\ IF b.tag = "Panic"
       THEN ret' = b /\ fit' = [fit EXCEPT !.phase = "panicked"]
       ELSE ret' = ret /\ fit' = b.val
    /\ UNCHANGED <<call, rng>>

FitEnter(x, ar, d, ma) ==
    \E overflow_checks \in BOOLEAN : FitEntered(FitBegin(x, ar, d, ma, overflow_checks))

FitStart ==
    /\ call.fn = "fit"
    /\ FitEnter(call.x, call.ar, call.d, call.ma)

AutofitSelected(o) ==
    /\ IF o.tag = "Panic"
       THEN ret' = o /\ fit' = [fit EXCEPT !.phase = "panicked"]
       ELSE ret' = ret /\ fit' = [fit EXCEPT !.phase = "selected", !.ar = o.val.ar,
                                              !.ma = o.val.ma]
    /\ UNCHANGED <<call, rng>>

(* estimate.rs:194-264: autofit selects the orders *)
AutofitStart ==
    /\ call.fn = "autofit"
    /\ ret = Pending
    /\ fit.phase = "none"
    /\ \E overflow_checks \in BOOLEAN :
          AutofitSelected(AutofitOrders(call.x, call.d, overflow_checks))

(* estimate.rs:265: autofit ends in the call fit(&x, ar_order, d, ma_order) *)
AutofitFit ==
    /\ call.fn = "autofit"
    /\ fit.phase = "selected"
    /\ FitEnter(call.x, fit.ar, call.d, fit.ma)

(* minimize evaluates the objective at the initial point before its first  *)
(* iteration (estimate.rs:159-166 called from line 169)                    *)
FitFirstEvaluation ==
    /\ fit.phase = "initial"
    /\ ret = Pending
    /\ LET o == FitObjective(fit.x, fit.ar, fit.ma, fit.coef)
       IN  IF o.tag = "Panic"
           THEN ret' = o /\ fit' = [fit EXCEPT !.phase = "panicked"]
           ELSE /\ ret' = ret
                /\ fit' = [fit EXCEPT !.phase = "iterating",
                                      !.evaluated = fit.coef, !.css = o.val]
    /\ UNCHANGED <<call, rng>>

(* one iteration of the optimizer: it moves coef and evaluates there *)
FitIterate ==
    /\ fit.phase = "iterating"
    /\ ret = Pending
    /\ fit.iter < MaxIterations
    /\ \E p \in OptimizerPoints(Len(fit.coef)) :
          LET o == FitObjective(fit.x, fit.ar, fit.ma, p)
          IN  IF o.tag = "Panic"
              THEN ret' = o /\ fit' = [fit EXCEPT !.phase = "panicked"]
              ELSE /\ ret' = ret
                   /\ fit' = [fit EXCEPT !.coef = p, !.evaluated = p, !.css = o.val,
                                         !.iter = fit.iter + 1]
    /\ UNCHANGED <<call, rng>>

(* minimize returns Ok: the convergence test is met *)
FitConverged ==
    /\ fit.phase = "iterating"
    /\ ret = Pending
    /\ fit' = [fit EXCEPT !.phase = "converged"]
    /\ UNCHANGED <<call, ret, rng>>

(* minimize stops at the iteration cap of line 168 *)
FitMaxIterations ==
    /\ fit.phase = "iterating"
    /\ ret = Pending
    /\ fit.iter = MaxIterations
    /\ fit' = [fit EXCEPT !.phase = "exhausted"]
    /\ UNCHANGED <<call, ret, rng>>

(* minimize returns Err (a failed line search, say): lines 169-177 log it *)
FitOptimizerError ==
    /\ fit.phase = "iterating"
    /\ ret = Pending
    /\ fit' = [fit EXCEPT !.phase = "optimizer-error", !.warned = TRUE]
    /\ UNCHANGED <<call, ret, rng>>

(* line 179 *)
FitReturn ==
    /\ fit.phase \in {"converged", "exhausted", "optimizer-error"}
    /\ ret = Pending
    /\ ret' = FitResult(fit)
    /\ UNCHANGED <<call, fit, rng>>

Init ==
    /\ \/ AcfCalls(call)
       \/ ResidualsCalls(call)
       \/ ArDlCalls(call)
       \/ ArLapackCalls(call)
       \/ PacfCalls(call)
       \/ PacfRhoCalls(call)
       \/ ArCalls(call)
       \/ DiffCalls(call)
       \/ CumsumCalls(call)
       \/ DiffinvCalls(call)
       \/ SimCalls(call)
       \/ ForecastCalls(call)
       \/ FitCalls(call)
       \/ AutofitCalls(call)
    /\ ret = Pending
    /\ fit = NoFit
    /\ rng = 0

Next ==
    \/ CallAcf
    \/ CallResiduals
    \/ CallArDlRhoCov
    \/ CallArLapackRho
    \/ CallPacf
    \/ CallPacfRhoCov0
    \/ CallAr
    \/ CallDiff
    \/ CallCumsum
    \/ CallDiffinv
    \/ CallArimaSim
    \/ CallArimaForecast
    \/ FitStart
    \/ AutofitStart
    \/ AutofitFit
    \/ FitFirstEvaluation
    \/ FitIterate
    \/ FitConverged
    \/ FitMaxIterations
    \/ FitOptimizerError
    \/ FitReturn

Spec == Init /\ [][Next]_vars

Returned == ret.tag # "Pending"

----------------------------------------------------------------------------
(* Reference definitions used by the properties of acf *)

(* sum over i = 0..k-1 of (x[i] - mean)(x[i+t] - mean) *)
RECURSIVE CrossSum(_, _, _, _)
CrossSum(x, mean, t, k) ==
    IF k = 0 THEN F(0)
    ELSE FAdd(CrossSum(x, mean, t, k - 1),
              FMul(FSub(x[k], mean), FSub(x[k + t], mean)))

(* the biased lag-t autocovariance: divisor n for every lag *)
AutoCov(x, t) == FDiv(CrossSum(x, MeanX(x), t, Len(x) - t), F(Len(x)))

RECURSIVE SumSq(_, _)
SumSq(x, k) == IF k = 0 THEN F(0) ELSE FAdd(SumSq(x, k - 1), FMul(x[k], x[k]))

(* population variance, as E[x^2] - E[x]^2 *)
PopVar(x) == FSub(FDiv(SumSq(x, Len(x)), F(Len(x))), FMul(MeanX(x), MeanX(x)))

ClampedLag(x, max_lag) ==
    IF max_lag = None \/ max_lag[1] > Len(x) - 1 THEN Len(x) - 1 ELSE max_lag[1]

AcfReturned == call.fn = "acf" /\ Returned

----------------------------------------------------------------------------
(* C1: for every series of length n >= 1 and every max_lag (None included), *)
(* acf returns Ok with a vector of exactly min(max_lag, n-1)+1 entries,     *)
(* max_lag being n-1 when not given; a max_lag above n-1 is clamped and the *)
(* call never panics on an out-of-range access.                            *)
C1_AcfLength ==
    (AcfReturned /\ Len(call.x) >= 1) =>
        /\ ret.tag = "Ok"
        /\ Len(ret.val) = ClampedLag(call.x, call.max_lag) + 1

(* a call whose max_lag exceeds n-1 returned n entries *)
C1_Witness ==
    /\ AcfReturned
    /\ Len(call.x) = 3
    /\ call.max_lag = Some(5)
    /\ ret.tag = "Ok"
    /\ Len(ret.val) = 3

(* C2: in covariance mode entry t of the result, for every lag t in        *)
(* 0..=max_lag, is (1/n) * sum_{i=0}^{n-t-1} (x[i]-mean)(x[i+t]-mean) with  *)
(* the divisor n at every lag; entry 0 is the population variance of x.    *)
C2_AcfCovariance ==
    (AcfReturned /\ call.covariance /\ Len(call.x) >= 1) =>
        /\ ret.tag = "Ok"
        /\ DOMAIN ret.val = 1..(ClampedLag(call.x, call.max_lag) + 1)
        /\ \A t \in 0..ClampedLag(call.x, call.max_lag) :
               At(ret.val, t) = AutoCov(call.x, t)
        /\ At(ret.val, 0) = PopVar(call.x)

(* the covariances of [0, 1, 1, 0]: mean 1/2, entries 1/4, -1/16, -1/8, 1/16 *)
C2_Witness ==
    /\ AcfReturned
    /\ call.covariance
    /\ call.x = <<F(0), F(1), F(1), F(0)>>
    /\ ret = Ok(<<Norm(1, 4), Norm(-1, 16), Norm(-1, 8), Norm(1, 16)>>)

(* C3: in correlation mode entry 0 is exactly 1.0 and every entry t > 0 is  *)
(* the lag-t autocovariance divided by the lag-0 autocovariance as it was   *)
(* before entry 0 was overwritten with 1.0.                                *)
C3_AcfCorrelation ==
    (AcfReturned /\ ~call.covariance /\ Len(call.x) >= 1) =>
        /\ ret.tag = "Ok"
        /\ At(ret.val, 0) = F(1)
        /\ \A t \in 1..ClampedLag(call.x, call.max_lag) :
               At(ret.val, t) = FDiv(AutoCov(call.x, t), AutoCov(call.x, 0))

(* scenario 1: x = [1.0, 1.2, 1.4, 1.6], max_lag 2 gives [1.0, 0.25, -0.3] *)
C3_Witness ==
    /\ AcfReturned
    /\ ~call.covariance
    /\ call.x = ExampleX
    /\ call.max_lag = Some(2)
    /\ AutoCov(call.x, 0) = Norm(1, 20)
    /\ ret = Ok(<<F(1), Norm(1, 4), Norm(-3, 10)>>)

(* C4: acf returns an error, and no vector, whenever the series has fewer   *)
(* than 2 elements, for every max_lag and both modes.                      *)
C4_AcfInputTooShort ==
    (AcfReturned /\ Len(call.x) < 2) => ret.tag = "Err"

----------------------------------------------------------------------------
(* Reference definitions used by the properties of residuals *)

RECURSIVE SumSeq(_, _)
SumSeq(s, k) == IF k = 0 THEN F(0) ELSE FAdd(SumSeq(s, k - 1), s[k])

Sigma(s) == SumSeq(s, Len(s))

(* intercept + sum_j phi[j]*x[t-j-1] + sum_{j < min(len(theta), t)} theta[j]*res[t-j-1] *)
Predicted(x, intercept, phi, theta, res, t) ==
    FAdd(FAdd(intercept,
              Sigma([j \in 1..Len(phi) |-> FMul(phi[j], x[t - j + 1])])),
         Sigma([j \in 1..Min(Len(theta), t) |-> FMul(theta[j], res[t - j + 1])]))

ResidualsReturned == call.fn = "residuals" /\ Returned

CallPhi == UnwrapOrEmpty(call.phi)

CallTheta == UnwrapOrEmpty(call.theta)

(* C5: whenever len(x) >= len(phi) and len(x) >= len(theta), residuals     *)
(* returns a vector of exactly len(x) entries whose first len(phi) entries *)
(* are exactly 0 (an absent phi or theta has length 0).                    *)
C5_ResidualsBurnIn ==
    (ResidualsReturned /\ Len(call.x) >= Len(CallPhi) /\ Len(call.x) >= Len(CallTheta)) =>
        /\ ret.tag = "Ok"
        /\ Len(ret.val) = Len(call.x)
        /\ \A j \in 0..(Len(CallPhi) - 1) : At(ret.val, j) = F(0)

(* two burn-in zeros followed by a non-zero residual *)
C5_Witness ==
    /\ ResidualsReturned
    /\ Len(call.x) = 3
    /\ Len(CallPhi) = 2
    /\ Len(CallTheta) = 2
    /\ ret.tag = "Ok"
    /\ At(ret.val, 0) = F(0) /\ At(ret.val, 1) = F(0) /\ At(ret.val, 2) # F(0)

(* C6: for every t with len(phi) <= t < len(x), residuals[t] = x[t] minus   *)
(* (intercept + sum_j phi[j]*x[t-j-1] + sum_{j<min(len(theta),t)}           *)
(* theta[j]*residuals[t-j-1]), the residuals on the right being the entries *)
(* produced earlier in the same pass.                                      *)
C6_ResidualsRecurrence ==
    (ResidualsReturned /\ ret.tag = "Ok") =>
        \A t \in Len(CallPhi)..(Len(call.x) - 1) :
            At(ret.val, t) =
                FSub(At(call.x, t),
                     Predicted(call.x, call.intercept, CallPhi, CallTheta, ret.val, t))

(* scenario 3: x = [1.0, 1.2, 1.4, 1.6], intercept 0, phi = [0.6, 0.4],     *)
(* theta = [0.3] gives [0, 0, 0.28, 0.196]                                  *)
C6_Witness ==
    /\ ResidualsReturned
    /\ call.x = ExampleX
    /\ call.intercept = F(0)
    /\ CallPhi = ExamplePhi
    /\ CallTheta = ExampleTheta
    /\ ret = Ok(<<F(0), F(0), Norm(28, 100), Norm(196, 1000)>>)

(* C7: residuals returns an error, and no vector, exactly when              *)
(* len(phi) > len(x) or len(theta) > len(x); otherwise (equality and an     *)
(* empty x with empty phi and theta included) it returns a vector.          *)
C7_ResidualsDimension ==
    ResidualsReturned =>
        /\ ret.tag \in {"Ok", "Err"}
        /\ ret.tag = "Err" <=>
              (Len(CallPhi) > Len(call.x) \/ Len(CallTheta) > Len(call.x))

(* theta alone is longer than the series and the call fails *)
C7_Witness ==
    /\ ResidualsReturned
    /\ Len(call.x) = 1
    /\ Len(CallPhi) = 1
    /\ Len(CallTheta) = 2
    /\ ret = Err(TooManyItems)

----------------------------------------------------------------------------
(* Reference definitions used by the properties of ar_dl_rho_cov: the      *)
(* Levinson recursion, with phi_0 empty and var_0 = cov0                   *)

Rho(rho, k) == rho[k + 1]

(* numerator sum, denominator and phi_ii of step i, from p = phi_{i-1} *)
LevNum(p, rho, i) ==
    Sigma([j \in 1..(i - 1) |-> FMul(p[j], Rho(rho, i - j))])

LevDen(p, rho, i) ==
    FSub(F(1), Sigma([j \in 1..(i - 1) |-> FMul(p[j], Rho(rho, j))]))

LevPhiII(p, rho, i) == FDiv(FSub(Rho(rho, i), LevNum(p, rho, i)), LevDen(p, rho, i))

(* phi_i from p = phi_{i-1} and pii = phi_ii *)
LevNext(p, pii, i) ==
    [j \in 1..i |-> IF j = i THEN pii ELSE FSub(p[j], FMul(pii, p[i - j]))]

RECURSIVE LevPhi(_, _)
LevPhi(rho, i) ==
    IF i = 0 THEN <<>>
    ELSE LET p == LevPhi(rho, i - 1)
         IN  LevNext(p, LevPhiII(p, rho, i), i)

RECURSIVE LevVar(_, _, _)
LevVar(rho, cov0, i) ==
    IF i = 0 THEN cov0
    ELSE LET pii == LevPhi(rho, i)[i]
         IN  FMul(LevVar(rho, cov0, i - 1), FSub(F(1), FMul(pii, pii)))

EffectiveOrder(rho, order) ==
    IF order = None \/ order[1] > Len(rho) - 1 THEN Len(rho) - 1 ELSE order[1]

ArDlReturned == call.fn = "ar_dl_rho_cov" /\ Returned

(* |a - n/d| < 1e-7 *)
Within7(a, n, d) ==
    LET e == FSub(a, Norm(n, d))
    IN  FLt(<<Abs(e[1]), e[2]>>, <<1, 10000000>>)

(* C8: for every non-empty rho and every order (None and 0 included),       *)
(* ar_dl_rho_cov returns a coefficient vector whose length is the effective *)
(* order k = min(order, len(rho)-1); for k = 0 the vector is empty and the  *)
(* returned variance is cov0.                                              *)
C8_ArDlLength ==
    (ArDlReturned /\ Len(call.rho) >= 1) =>
        /\ ret.tag = "Ok"
        /\ Len(ret.val[1]) = EffectiveOrder(call.rho, call.order)
        /\ EffectiveOrder(call.rho, call.order) = 0 =>
              (ret.val[1] = <<>> /\ ret.val[2] = call.cov0)

(* C9: for an effective order k >= 1, ar_dl_rho_cov returns (phi_k, var_k)  *)
(* of the Levinson recursion started from var_0 = cov0:                     *)
(* phi_ii = (rho[i] - sum_j phi_{i-1,j} rho[i-j]) /                         *)
(* (1 - sum_j phi_{i-1,j} rho[j]), var_i = var_{i-1} (1 - phi_ii^2),        *)
(* phi_{i,j} = phi_{i-1,j} - phi_ii phi_{i-1,i-j}.                          *)
C9_ArDlLevinson ==
    (ArDlReturned /\ Len(call.rho) >= 1 /\ EffectiveOrder(call.rho, call.order) >= 1) =>
        LET k == EffectiveOrder(call.rho, call.order)
        IN  ret = Ok(<<LevPhi(call.rho, k), LevVar(call.rho, call.cov0, k)>>)

(* scenario 2: rho of x = [1.0, 1.2, 1.4, 1.6] at order 2 gives             *)
(* phi = [26/75, -29/75], i.e. [0.3466667, -0.3866667] within 1e-7          *)
C9_Witness ==
    /\ ArDlReturned
    /\ call.rho = ExampleRho
    /\ call.cov0 = ExampleCov0
    /\ call.order = Some(2)
    /\ ret.tag = "Ok"
    /\ ret.val[1] = <<Norm(26, 75), Norm(-29, 75)>>
    /\ Within7(ret.val[1][1], 3466667, 10000000)
    /\ Within7(ret.val[1][2], -3866667, 10000000)

(* C10: ar_dl_rho_cov fails with an error whenever the denominator          *)
(* 1 - sum_j phi_{i-1,j} rho[j] is zero at some step i <= order, and an Ok  *)
(* result never carries NaN, infinite or negative-variance values.          *)
C10_ArDlSingular ==
    (ArDlReturned /\ Len(call.rho) >= 1) =>
        /\ (\E i \in 1..EffectiveOrder(call.rho, call.order) :
               LevDen(LevPhi(call.rho, i - 1), call.rho, i) = F(0)) => ret.tag = "Err"
        /\ ret.tag = "Ok" =>
              /\ \A j \in DOMAIN ret.val[1] : IsFinite(ret.val[1][j])
              /\ IsFinite(ret.val[2])
              /\ ~FLt(ret.val[2], F(0))

----------------------------------------------------------------------------
(* |a - b| < 1e-7 for two floats; false when either is NaN or infinite *)
Close7(a, b) ==
    LET e == FSub(a, b)
    IN  IsFinite(e) /\ (Abs(e[1]) = 0 \/ Abs(e[1]) < e[2] \div 10000000)

ArLapackReturned == call.fn = "ar_lapack_rho" /\ Returned

(* C11: for the autocorrelations rho of a series x and every order k with   *)
(* 1 <= k <= len(x)-2, the coefficients returned by ar_dl_rho_cov and by    *)
(* ar_lapack_rho both have length k and agree entry by entry within 1e-7.   *)
C11_SolversAgree ==
    (/\ ArLapackReturned
     /\ call.rho \in AcfRhos
     /\ call.order # None
     /\ call.order[1] <= Len(call.rho) - 2) =>
        LET k == call.order[1]
            dl == ArDlRhoCov(call.rho, F(1), call.order, TRUE)
        IN  /\ ret.tag = "Ok"
            /\ dl.tag = "Ok"
            /\ Len(ret.val) = k
            /\ Len(dl.val[1]) = k
            /\ \A i \in 1..k : Close7(ret.val[i], dl.val[1][i])

(* the same statement for the series that are not constant *)
C11_NonConstant ==
    (/\ ArLapackReturned
     /\ call.rho \in AcfRhos
     /\ IsFinite(call.rho[2])
     /\ call.order # None
     /\ call.order[1] <= Len(call.rho) - 2) =>
        LET k == call.order[1]
            dl == ArDlRhoCov(call.rho, F(1), call.order, TRUE)
        IN  /\ ret.tag = "Ok"
            /\ dl.tag = "Ok"
            /\ ret.val = dl.val[1]

----------------------------------------------------------------------------
(* Reference definitions used by the properties of fit *)

(* y[i] = x[i+1] - x[i] *)
FirstDifference(x) == [i \in 1..(Len(x) - 1) |-> FSub(x[i + 1], x[i])]

(* the first difference applied d times in succession *)
RECURSIVE Differenced(_, _)
Differenced(x, d) == IF d = 0 THEN x ELSE FirstDifference(Differenced(x, d - 1))

(* fit has handed a start vector to minimize and has not panicked since *)
FitRunning == fit.phase \notin {"none", "selected", "panicked"}

FitTerminal == {"converged", "exhausted", "optimizer-error"}

(* C12: in every call of fit the vector handed to the optimizer, every      *)
(* vector the objective is evaluated on and the returned vector have length *)
(* exactly 1 + ar + ma, and the length assertion of the objective never     *)
(* fails.                                                                   *)
C12_FitLayout ==
    /\ ret # Panic(AssertFailed)
    /\ FitRunning =>
          /\ Len(fit.start) = 1 + fit.ar + fit.ma
          /\ Len(fit.coef) = 1 + fit.ar + fit.ma
          /\ fit.phase # "initial" => Len(fit.evaluated) = 1 + fit.ar + fit.ma
          /\ ret.tag = "Ok" => Len(ret.val) = 1 + fit.ar + fit.ma

(* C13: every run of the optimizer loop goes initial -> iterating -> one of *)
(* converged, exhausted (after 200 iterations), optimizer-error; the        *)
(* evaluation never fails; and from each of the three fit returns Ok with   *)
(* the coefficients as the optimizer left them.                            *)
C13_FitPhases ==
    [][/\ fit.phase = "initial" => fit'.phase \in {"initial", "iterating"}
       /\ fit.phase = "iterating" => fit'.phase \in {"iterating"} \cup FitTerminal
       /\ (fit.phase = "iterating" /\ fit'.phase = "exhausted") => fit.iter = 200
       /\ fit.phase \in FitTerminal =>
             /\ fit' = fit
             /\ ret' # ret => ret' = Ok(fit.coef)]_vars

(* C14: the start vector of fit is built from the series differenced d     *)
(* times: the intercept is its mean, the AR entries are its partial        *)
(* autocorrelations at the lags 1..ar in lag order, the MA entries are 1.0; *)
(* the objective is evaluated on the differenced series.                   *)
C14_FitStartPoint ==
    FitRunning =>
        LET dx == Differenced(call.x, call.d)
            rho == Acf(dx, None, FALSE, TRUE).val
        IN  /\ fit.x = dx
            /\ Len(fit.start) = 1 + fit.ar + fit.ma
            /\ fit.start[1] = FDiv(Sigma(dx), F(Len(dx)))
            /\ \A k \in 1..fit.ar : fit.start[1 + k] = LevPhi(rho, k)[k]
            /\ \A j \in 1..fit.ma : fit.start[1 + fit.ar + j] = F(1)
            /\ fit.phase # "initial" =>
                  fit.css = Css(Residuals(dx, fit.evaluated[1],
                                          Some(SubSeq(fit.evaluated, 2, fit.ar + 1)),
                                          Some(SubSeq(fit.evaluated, fit.ar + 2,
                                                      Len(fit.evaluated)))).val)

(* the same statement for the calls whose start vector has 1 + ar + ma      *)
(* entries                                                                  *)
C14_FullStartPoint ==
    Len(fit.start) = 1 + fit.ar + fit.ma => C14_FitStartPoint

----------------------------------------------------------------------------
(* Reference definitions used by the properties of autofit *)

(* var_0 = 0, var_1 = 1/n, var_k = (1/n)(1 + 2 sum_{j=1}^{k-1} rho_j^2); *)
(* rho_j is rho[j + 1]                                                     *)
BartlettVar(rho, n, k) ==
    IF k = 0 THEN F(0)
    ELSE FMul(FDiv(F(1), F(n)),
              FAdd(F(1), FMul(F(2), Sigma([j \in 1..(k - 1) |->
                                              FMul(rho[j + 1], rho[j + 1])]))))

(* the length of the leading run of TRUE in flags *)
LeadingRun(flags) == Cardinality({k \in 1..Len(flags) : \A j \in 1..k : flags[j]})

(* the leading run of the lags 0, 1, .. whose ACF value is outside its bound *)
MaRun(x) ==
    LET rho == Acf(x, Some(12), FALSE, TRUE).val
    IN  LeadingRun([k \in 1..Len(rho) |-> Outside(rho[k], BartlettVar(rho, Len(x), k - 1))])

(* the leading run of the lags 1, 2, .. whose PACF value is outside +-ppf sqrt(1/n) *)
ArRun(x) ==
    LET pacf == Pacf(x, Some(12), TRUE).val
    IN  LeadingRun([k \in 1..Len(pacf) |-> Outside(pacf[k], FDiv(F(1), F(Len(x))))])

AutofitSelecting == call.fn = "autofit" /\ fit.phase = "none"

(* C15: for a series of length n >= 2 autofit selects as MA order the       *)
(* length of the leading run of lags, from lag 0 over the ACF up to lag 12, *)
(* whose ACF value is outside +-1.959963984540054 sqrt(var_k), minus one;   *)
(* the subtraction does not underflow and 0 <= ma_order <= 12.             *)
C15_AutofitMaOrder ==
    [][(AutofitSelecting /\ Len(call.x) >= 2) =>
          /\ fit'.phase = "selected"
          /\ fit'.ma = MaRun(call.x) - 1
          /\ fit'.ma \in 0..12]_vars

C15_Witness ==
    /\ call.fn = "autofit"
    /\ fit.phase = "selected"
    /\ Len(call.x) > 12
    /\ fit.ma = 2

(* C16: the AR order autofit selects is the number of consecutive lags     *)
(* k = 1, 2, .. (at most 12) whose PACF value is outside                   *)
(* +-1.959963984540054 sqrt(1/n), and autofit then does what               *)
(* fit(x, ar_order, d, ma_order) does and returns what it returns.         *)
C16_AutofitArOrder ==
    [][/\ (AutofitSelecting /\ fit'.phase = "selected") =>
             (fit'.ar = ArRun(call.x) /\ fit'.ar \in 0..12)
       /\ (call.fn = "autofit" /\ fit.phase = "selected") =>
             \E overflow_checks \in BOOLEAN :
                LET b == FitBegin(call.x, fit.ar, call.d, fit.ma, overflow_checks)
                IN  IF b.tag = "Panic" THEN ret' = b ELSE ret' = ret /\ fit' = b.val
       /\ (call.fn = "autofit" /\ ret' # ret /\ ret'.tag # "Panic") =>
             ret' = Ok(fit.coef)]_vars

C16_Witness ==
    /\ call.fn = "autofit"
    /\ ret.tag = "Ok"
    /\ fit.ar = 2
    /\ Len(ret.val) = 1 + fit.ar + fit.ma

----------------------------------------------------------------------------
(* Properties of pacf, pacf_rho_cov0 and ar *)

(* the reference PACF of rho: entry k is the last coefficient of the       *)
(* Levinson solution of order k                                            *)
LevPacf(rho, n) == [k \in 1..n |-> LevPhi(rho, k)[k]]

PacfRhoReturned == call.fn = "pacf_rho_cov0" /\ Returned

PacfReturned == call.fn = "pacf" /\ Returned

ArReturned == call.fn = "ar" /\ Returned

----------------------------------------------------------------------------
(* Properties of diff, cumsum and diffinv *)

DiffReturned == call.fn = "diff" /\ Returned

DiffinvReturned == call.fn = "diffinv" /\ Returned

CumsumReturned == call.fn = "cumsum" /\ Returned

(* the entries 0..d-1 of y are zero *)
LeadingZeros(y, d) == \A i \in 0..(d - 1) : At(y, i) = F(0)

(* C18: for every vector x, the empty one included, and every d >= 0,      *)
(* diff(diffinv(x, d), d) equals x, and diffinv(x, d) has len(x) + d       *)
(* entries of which the first d are zero.                                  *)
C18_DiffOfDiffinv ==
    DiffinvReturned =>
        /\ ret.tag = "Return"
        /\ Len(ret.val) = Len(call.x) + call.d
        /\ LeadingZeros(ret.val, call.d)
        /\ Diff(ret.val, call.d) = Return(call.x)

C18_Witness ==
    /\ DiffinvReturned
    /\ call.d = 2
    /\ Len(call.x) >= 2
    /\ At(call.x, 0) # F(0)
    /\ At(call.x, 1) # F(0)
    /\ Diff(ret.val, call.d) = Return(call.x)

(* C19: for every d >= 0 and every x with len(x) >= d,                     *)
(* diffinv(diff(x, d), d), once its d leading zeros are discarded,         *)
(* reproduces x (or, read for the entries it can hold, the entries of x    *)
(* from index d on).                                                       *)
C19_DiffinvOfDiff ==
    (DiffReturned /\ Len(call.x) >= call.d) =>
        LET back == Diffinv(ret.val, call.d).val
        IN  \/ Drain(back, call.d) = call.x
            \/ Drain(back, call.d) = Drain(call.x, call.d)

(* C19 as the code has it: diffinv(diff(x, d), d) has len(x) entries, the  *)
(* first d are zero, its d-th difference is that of x, and it equals x     *)
(* exactly when the first d entries of x are zero.                         *)
C19_DiffinvOfDiffAmended ==
    (DiffReturned /\ Len(call.x) >= call.d) =>
        LET back == Diffinv(ret.val, call.d).val
        IN  /\ ret.tag = "Return"
            /\ Len(back) = Len(call.x)
            /\ LeadingZeros(back, call.d)
            /\ Diff(back, call.d) = ret
            /\ back = call.x <=> LeadingZeros(call.x, call.d)

C19_Witness ==
    /\ DiffReturned
    /\ call.d = 1
    /\ Len(call.x) = 3
    /\ At(call.x, 0) # F(0)
    /\ Diffinv(ret.val, call.d).val # call.x
    /\ Drain(Diffinv(ret.val, call.d).val, 1) # Drain(call.x, 1)

C21_CumsumPrefixSums ==
    CumsumReturned =>
        /\ Len(ret.val) = Len(call.x)
        /\ \A i \in 1..Len(call.x) : ret.val[i] = SumSeq(call.x, i)

----------------------------------------------------------------------------
(* Reference definitions used by the properties of arima_sim and           *)
(* arima_forecast                                                          *)

SimReturned == call.fn = "arima_sim" /\ Returned

ForecastReturned == call.fn = "arima_forecast" /\ Returned

Max(a, b) == IF a < b THEN b ELSE a

(* the last n entries of x *)
LastN(x, n) == SubSeq(x, Len(x) - n + 1, Len(x))

(* C22: arima_sim with 0 <= d <= n returns exactly n values after taking   *)
(* len(ar) + len(ma) + 10 + n noise samples, and without differencing the  *)
(* values are the simulated vector without its burn-in prefix;             *)
(* arima_forecast on a series at least as long as both orders returns      *)
(* exactly n values and takes them from behind the positions of ts (which  *)
(* the regression leaves as they were)                                     *)
C22_SimLengths ==
    /\ (SimReturned /\ call.d <= call.n) =>
          /\ ret.tag = "Ok"
          /\ Len(ret.val) = call.n
          /\ rng = Len(SimCoef(call.ar)) + Len(SimCoef(call.ma)) + 10 + call.n
          /\ call.d = 0 =>
                ret.val = LastN(SimVector(call.n, call.ar, call.ma, call.noise_fn), call.n)
    /\ (ForecastReturned
          /\ Len(call.ts) >= Max(Len(SimCoef(call.ar)), Len(SimCoef(call.ma)))) =>
          /\ ret.tag = "Ok"
          /\ Len(ret.val) = call.n
          /\ rng = call.n
          /\ LET x == ForecastVector(call.ts, call.n, call.ar, call.ma, call.noise_fn)
             IN  /\ SubSeq(x, 1, Len(call.ts)) = call.ts
                 /\ call.d = 0 => ret.val = LastN(x, call.n)

C22_Witness ==
    /\ SimReturned
    /\ call.n = 2 /\ call.d = 2
    /\ SimOrder(call.ar) = 2 /\ SimOrder(call.ma) = 1
    /\ ret.tag = "Ok" /\ Len(ret.val) = 2
    /\ rng = 15

----------------------------------------------------------------------------
(* Reference definitions used by the properties of ar_lapack_rho *)

(* entry (i, j) of the Yule-Walker matrix: rho[|i - j|] off the diagonal,  *)
(* one on it                                                               *)
YuleWalkerEntry(rho, i, j) ==
    IF i = j THEN F(1) ELSE At(rho, IF i > j THEN i - j ELSE j - i)

(* row i (0-based) of the Yule-Walker matrix times the vector phi *)
YuleWalkerRow(rho, phi, i) ==
    SumFn([j \in 1..Len(phi) |-> FMul(YuleWalkerEntry(rho, i, j - 1), phi[j])], 1, Len(phi))

(* C23: for the effective order k = min(order, len(rho)-1) the symmetric   *)
(* matrix handed to the solve (given by its lower triangle) has            *)
(* M[i][j] = rho[|i-j|] off the diagonal and ones on it, the right-hand    *)
(* side is rho[1..k]; the call returns Err exactly when the solve reports  *)
(* a non-zero status and otherwise the k entries of the solution in order  *)
(* (which then solve M phi = b where they are finite)                      *)
C23_LapackSystem ==
    ArLapackReturned =>
        LET k == ArDlOrder(Len(call.rho), call.order)
            mr == LapackMatrix(call.rho, k)
            b == LapackRhs(call.rho, k)
            solve == Dposv(mr, b, k)
        IN  /\ \A r \in 0..(k - 1), c \in 0..(k - 1) :
                 r >= c => LowerA(mr, k, r, c) = YuleWalkerEntry(call.rho, r, c)
            /\ \A i \in 1..k : b[i] = At(call.rho, i)
            /\ ret.tag \in {"Ok", "Err"}
            /\ ret.tag = "Err" <=> solve.info # 0
            /\ ret.tag = "Ok" =>
                 /\ Len(ret.val) = k
                 /\ \A i \in 1..k : ret.val[i] = solve.b[i]
                 /\ (\A i \in 1..k : IsFinite(ret.val[i])) =>
                        \A i \in 1..k : YuleWalkerRow(call.rho, ret.val, i - 1) = b[i]

C23_Witness ==
    /\ ArLapackReturned
    /\ ret.tag = "Ok"
    /\ Len(ret.val) = 2
    /\ call.rho = ExampleRho
    /\ \A i \in 1..2 : IsFinite(ret.val[i]) /\ ret.val[i] # F(0)

(* a call of ar_lapack_rho that the solve rejects *)
C23_Rejected ==
    /\ ArLapackReturned
    /\ ret.tag = "Err"
    /\ Len(call.rho) >= 3

----------------------------------------------------------------------------
(* Reference definitions used by the frame property of ar_dl_rho_cov *)

(* the tables of the pass with every row and variance other than those of  *)
(* step i replaced by NaN                                                  *)
OnlyStep(tables, i) ==
    [ok |-> tables.ok,
     phi |-> [r \in 1..Len(tables.phi) |->
                IF r = i + 1 THEN tables.phi[r]
                ELSE [c \in 1..Len(tables.phi[r]) |-> NaN]],
     var |-> [r \in 1..Len(tables.var) |-> IF r = i + 1 THEN tables.var[r] ELSE NaN]]

(* step i of the pass on the tables before: it appends one row of length i *)
(* and one variance, keeps what was there, and what it appends is the same *)
(* when only the row and variance of step i - 1 are given                  *)
ForwardStep(before, after, rho, i) ==
    /\ Len(after.phi) = i + 1 /\ Len(after.var) = i + 1
    /\ SubSeq(after.phi, 1, i) = before.phi
    /\ SubSeq(after.var, 1, i) = before.var
    /\ Len(At(after.phi, i)) = i
    /\ At(ArDlRound(OnlyStep(before, i - 1), rho, i).phi, i) = At(after.phi, i)
    /\ At(ArDlRound(OnlyStep(before, i - 1), rho, i).var, i) = At(after.var, i)

(* C24: the Durbin-Levinson pass is strictly forward: step i = 1..order    *)
(* reads only rho, the row and the variance of step i-1, writes only row i *)
(* (of length i) and var_i and leaves the earlier rows and variances as    *)
(* they were; so the result of order j < order is the row (and variance)   *)
(* the run of the larger order holds after its step j, and the result of   *)
(* the run itself is its last row                                          *)
C24_ArDlForward ==
    (ArDlReturned /\ Len(call.rho) >= 1) =>
        LET k == EffectiveOrder(call.rho, call.order)
            full == ArDlLoop(call.rho, call.cov0, k)
        IN  /\ \A i \in 1..k :
                 ForwardStep(ArDlLoop(call.rho, call.cov0, i - 1),
                             ArDlLoop(call.rho, call.cov0, i), call.rho, i)
            /\ \A j \in 0..k :
                 ArDlRhoCov(call.rho, call.cov0, Some(j), call.overflow_checks)
                     = Ok(<<At(full.phi, j), At(full.var, j)>>)
            /\ ret = Ok(<<At(full.phi, k), At(full.var, k)>>)

C24_Witness ==
    /\ ArDlReturned
    /\ EffectiveOrder(call.rho, call.order) = 3
    /\ ret.tag = "Ok"
    /\ Len(ret.val[1]) = 3
    /\ ret.val[1] # At(ArDlLoop(call.rho, call.cov0, 2).phi, 2)
    /\ \A c \in 1..3 : IsFinite(ret.val[1][c])

----------------------------------------------------------------------------
(* C25: for every input accepted by residuals (len(x) >= len(phi) and      *)
(* len(x) >= len(theta)) every index of the forward pass is in range: in   *)
(* round t each AR read x[t-j-1] has 0 <= t-j-1 < len(x) and each MA read  *)
(* residuals[t-j-1] has 0 <= t-j-1 < t, an entry already appended, since   *)
(* the vector has t entries when round t begins and t + 1 when it ends     *)
C25_ResidualsIndices ==
    (ResidualsReturned /\ Len(call.x) >= Len(CallPhi) /\ Len(call.x) >= Len(CallTheta)) =>
        /\ ret.tag = "Ok"
        /\ \A t \in Len(CallPhi)..(Len(call.x) - 1) :
              LET before == ResidualsLoop(call.x, call.intercept, CallPhi, CallTheta,
                                          t - Len(CallPhi))
                  after == ResidualsLoop(call.x, call.intercept, CallPhi, CallTheta,
                                         t - Len(CallPhi) + 1)
              IN  /\ \A i \in ResidualsArReads(CallPhi, t) : 0 <= i /\ i < Len(call.x)
                  /\ \A i \in ResidualsMaReads(CallTheta, t) : 0 <= i /\ i < t
                  /\ Cardinality(ResidualsArReads(CallPhi, t)) = Len(CallPhi)
                  /\ Cardinality(ResidualsMaReads(CallTheta, t)) = Min(Len(CallTheta), t)
                  /\ Len(before) = t
                  /\ Len(after) = t + 1
                  /\ SubSeq(after, 1, t) = before
                  /\ SubSeq(ret.val, 1, t + 1) = after

(* a pass whose first rounds have fewer residuals than MA coefficients *)
C25_Witness ==
    /\ ResidualsReturned
    /\ Len(call.x) = 3
    /\ Len(CallPhi) = 1
    /\ Len(CallTheta) = 2
    /\ ret.tag = "Ok"
    /\ ResidualsMaReads(CallTheta, 1) = {0}
    /\ ResidualsMaReads(CallTheta, 2) = {0, 1}

----------------------------------------------------------------------------
(* C26: the orders autofit selects depend on the series only: whatever     *)
(* autofit(x, d) selects (or the panic it ends in before selecting) is     *)
(* what the selection yields for the same x and every other d, because     *)
(* the ACF and the PACF are taken of the undifferenced x and d is only     *)
(* handed on to fit                                                        *)
C26_AutofitOrdersIgnoreD ==
    [][AutofitSelecting =>
          \A d \in 0..MaxDiff :
              \E overflow_checks \in BOOLEAN :
                  LET o == AutofitOrders(call.x, d, overflow_checks)
                  IN  \/ /\ o.tag = "Panic"
                         /\ fit'.phase = "panicked"
                         /\ ret' = o
                      \/ /\ o.tag = "Return"
                         /\ fit'.phase = "selected"
                         /\ o.val = [ar |-> fit'.ar, ma |-> fit'.ma]]_vars

(* orders selected for a d > 0 where the differenced series would have     *)
(* given other orders                                                      *)
C26_Witness ==
    /\ call.fn = "autofit"
    /\ fit.phase = "selected"
    /\ call.d = 2
    /\ fit.ar + fit.ma >= 1
    /\ AutofitOrdersOf(AutofitSeriesDifferenced(call.x, call.d), TRUE)
          # Return([ar |-> fit.ar, ma |-> fit.ma])

====
